---- MODULE Spec2Model ----
(***************************************************************************)
(* Kick Stream Monitor: the client-side data layer.                        *)
(*   - RateLimiter and the StreamerManager fetch pipeline                  *)
(*     (src/streamerManager.js)                                            *)
(*   - HistoryManager session tracking (src/unnamed/part_002)              *)
(* JavaScript runs one task at a time: an action is one run-to-completion  *)
(* step, from the event that resumes the code (a call, a timer, a network  *)
(* response) to the next suspension (await) of every continuation it       *)
(* resumes.                                                                *)
(***************************************************************************)
EXTENDS Integers, Sequences, FiniteSets, TLC

(***************************************************************************)
(* Program constants                                                       *)
(***************************************************************************)
maxRequests == 10
windowMs == 1000
cacheValidMs == 60000
retryDelayMs == 2000
batchSize == 5
batchDelayMs == 200

(***************************************************************************)
(* Bounds of the model                                                     *)
(***************************************************************************)
\* load/refresh operations started in one behaviour of Spec
MaxOps == 2
\* length of the watchlist the source returns in Spec
MaxWatch == 2
\* length of the id list handed to fetchMultipleStreamers in SpecBatch
MaxIds == 12
\* advances of the clock in one behaviour of Spec, SpecRetry, SpecBatch and
\* SpecLimiter
MaxTicks == 1
MaxRetryTicks == 2
MaxBatchTicks == 3
MaxLimiterTicks == 2
\* network requests one fetchStreamerInfo call may issue before the
\* environment stops answering 429
MaxAttempts == 3
\* length of the watchlist in SpecRetry
MaxRetryWatch == 2
\* direct calls of RateLimiter.wait in SpecLimiter
MaxCalls == 12
\* recordStreamerUpdate calls, entities and clock advances in SpecHistory
MaxUpdates == 3
MaxEntities == 1
MaxHistoryTicks == 2
\* recordStreamerUpdate calls, entities and clock advances in SpecStore
MaxStoreUpdates == 2
MaxStoreEntities == 2
MaxStoreTicks == 1
\* setter calls, names and array lengths in SpecFilter, SpecSort, SpecBuckets
MaxFilterSets == 2
MaxFilterNames == 1
MaxFilterLen == 2
MaxSortSets == 1
MaxSortNames == 3
MaxSortLen == 3
MaxBucketSets == 1
MaxBucketNames == 1
MaxBucketLen == 1
\* setter calls in SpecValidate
MaxValidateSets == 2
\* subscriptions and setFilter calls in SpecEvents
MaxListeners == 2
MaxEventSets == 1
\* calls of the StorageManager in SpecFavorites
MaxFavoriteOps == 3
\* calls of the StorageManager and of the change handlers in SpecImport
MaxImportOps == 2
MaxImportSets == 1
\* fetchStreamersList and StorageManager calls, and the length of the
\* watchlist of the source, in SpecWatchlist
MaxFetches == 3
MaxListLen == 2
\* calls of the StorageManager and clock advances in SpecCache
MaxCacheOps == 3
MaxCacheTicks == 2
\* addStreamer/removeStreamer calls in SpecMutate
MaxMuts == 2
\* recordStreamerUpdate calls and clock advances in SpecPurge
MaxPurgeUpdates == 2
MaxPurgeTicks == 2
\* recordStreamerUpdate calls and clock advances in SpecAnalytics
MaxAnalyticsUpdates == 2
MaxAnalyticsTicks == 2
\* setter calls, names and array length in SpecIndex
MaxIndexSets == 2
MaxIndexNames == 1
MaxIndexLen == 2
\* calls to the store in SpecOutage
MaxOutageOps == 2
\* recordStreamerUpdate and importData calls in SpecMerge
MaxMergeUpdates == 2
MaxMergeImports == 1
\* sendNotification calls in SpecNotify
MaxNotes == 4
\* load/refresh calls in SpecRefresh
MaxRefreshOps == 2
\* Date.now() when the HistoryManager is constructed
StartMinute == 1

\* the clock advances in steps of the smallest timer of the program
TickMs == batchDelayMs

VARIABLES
    now,              \* Date.now(), in ms
    streamers,        \* StreamerManager.streamers
    cache,            \* StreamerManager.cache: name -> [data, timestamp]
    abortController,  \* id of StreamerManager.abortController, 0 = null
    aborted,          \* ids of the controllers whose signal has fired
    requests,         \* RateLimiter.requests
    ops,              \* the loadStreamers/refreshStreamers calls, in start order
    emitted,          \* the events emitted so far
    ticks,            \* advances of the clock so far
    cfg,              \* the scenario: what the environment may do
    waiting,          \* direct callers suspended in RateLimiter.wait: [id, wake]
    issued,           \* direct calls of RateLimiter.wait so far
    admitLog,         \* the times at which direct callers were admitted (ghost)
    hnow,             \* Date.now() of the HistoryManager, in minutes
    historyData,      \* HistoryManager.historyData: name -> history
    isInitialized,    \* HistoryManager.isInitialized
    stored,           \* the value stored under 'streamHistory' (parsed JSON text)
    nextSession,      \* sessions created so far (generateSessionId)
    updates,          \* recordStreamerUpdate calls so far
    observed,         \* name -> what the live snapshots of the entity's last
                      \* opened session showed: [id, start, last, max] (ghost)
    filters,          \* FilterManager.filters
    sortBy,           \* FilterManager.sortBy
    sortDirection,    \* FilterManager.sortDirection
    fsets,            \* calls of the setters of the FilterManager so far
    call,             \* the last query made under the current settings: the
                      \* caller's array before and after the call and the
                      \* value returned (ghost)
    favorites,        \* StorageManager.favorites: the members of the Set in
                      \* the order of insertion
    localStorage,     \* window.localStorage: key (without the prefix) -> the
                      \* value whose JSON text is stored
    sops,             \* calls of the StorageManager, and of
                      \* fetchStreamersList, so far
    puts,             \* cache key -> the entry of the last setCache call and
                      \* of the last one that was written (ghost)
    scall,            \* the last call of the StorageManager: its argument,
                      \* what it returned or threw and the state before it
                      \* (ghost)
    eventListeners,   \* bus -> the callbacks subscribed to its event, in the
                      \* order of subscription: what each does when called
    elog,             \* the last emit: the callbacks it called and whether
                      \* it threw (ghost)
    muts,             \* the addStreamer/removeStreamer calls, in start order
    acall,            \* the last query to the analytics of the
                      \* HistoryManager: its arguments, the history it saw
                      \* and what it returned (ghost)
    notificationQueue, \* NotificationManager.notificationQueue
    isProcessing,     \* NotificationManager.isProcessing
    loops,            \* the processNotificationQueue calls, in start order
    nlog              \* the notifications enqueued, delivered, dropped and
                      \* discarded so far (ghost)

rlVars == <<waiting, issued, admitLog>>
hmVars == <<hnow, historyData, isInitialized, stored, nextSession, updates, observed>>
fmVars == <<filters, sortBy, sortDirection, fsets, call>>
smVars == <<favorites, localStorage, sops, puts, scall>>
ebVars == <<eventListeners, elog>>
nmVars == <<notificationQueue, isProcessing, loops, nlog>>
appVars == <<muts, acall, nmVars>>
vars == <<now, streamers, cache, abortController, aborted, requests, ops, emitted,
          ticks, cfg, appVars, rlVars, hmVars, fmVars, smVars, ebVars>>

Min(S) == CHOOSE x \in S : \A y \in S : x <= y
Range(s) == {s[i] : i \in DOMAIN s}
Prefix(n) == [i \in 1..n |-> i]

(***************************************************************************)
(* Snapshots                                                               *)
(***************************************************************************)
NoSnapshot == [name |-> 0, live |-> FALSE, viewers |-> 0, error |-> FALSE]

\* the payload of the channel API: livestream is null or carries viewer_count
Payloads == {[livestream |-> FALSE, viewer_count |-> 0],
             [livestream |-> TRUE, viewer_count |-> 50]}

transformStreamerData(data, username) ==
    [name |-> username,
     live |-> data.livestream,
     viewers |-> IF data.livestream THEN data.viewer_count ELSE 0,
     error |-> FALSE]

getFallbackStreamerInfo(username) ==
    [name |-> username, live |-> FALSE, viewers |-> 0, error |-> TRUE]

(***************************************************************************)
(* RateLimiter.wait, up to its first suspension                            *)
(***************************************************************************)
RLFilter(reqs) == SelectSeq(reqs, LAMBDA t : now - t < windowMs)

\* (mutant) the window admits one request too many
RLFullOffByOne(reqs) == Len(reqs) > maxRequests

RLFull(reqs) == Len(reqs) >= maxRequests

RLWaitTime(reqs) == windowMs - (now - Min(Range(reqs)))

\* [admitted, requests, wake]: admitted at once, or suspended until wake
RLWait(reqs) ==
    LET kept == RLFilter(reqs) IN
    IF RLFull(kept)
    THEN [admitted |-> FALSE, requests |-> kept, wake |-> now + RLWaitTime(kept)]
    ELSE [admitted |-> TRUE, requests |-> Append(kept, now), wake |-> 0]

(***************************************************************************)
(* fetchStreamerInfo: one call is an item                                  *)
(*   st: "rl" suspended in rateLimiter.wait, "net" request in flight,      *)
(*       "backoff" in the 2 s sleep after a 429, "ok" fulfilled with val,  *)
(*       "rej" rejected with AbortError                                    *)
(*   attempts: requests issued by this call (ghost)                        *)
(*   resp: the last response the call received (ghost)                     *)
(***************************************************************************)
Item(name, st, wake, val, attempts) ==
    [name |-> name, st |-> st, wake |-> wake, val |-> val,
     attempts |-> attempts, resp |-> "none"]

CacheFresh(name) ==
    /\ name \in DOMAIN cache
    /\ now - cache[name].timestamp < cacheValidMs

\* fetch(url, {signal}): an aborted signal rejects at once
IssueFetch(name, sig, attempts) ==
    IF sig \in aborted
    THEN Item(name, "rej", 0, NoSnapshot, attempts)
    ELSE Item(name, "net", 0, NoSnapshot, attempts + 1)

\* the call after rateLimiter.wait() has been entered with `reqs`
AfterWait(name, sig, reqs, attempts) ==
    LET w == RLWait(reqs) IN
    [item |-> IF w.admitted
              THEN IssueFetch(name, sig, attempts)
              ELSE Item(name, "rl", w.wake, NoSnapshot, attempts),
     requests |-> w.requests]

\* the call from its entry to its first suspension
fetchStreamerInfo(name, sig, reqs, attempts) ==
    IF CacheFresh(name)
    THEN [item |-> Item(name, "ok", 0, cache[name].data, attempts),
          requests |-> reqs]
    ELSE AfterWait(name, sig, reqs, attempts)

Settled(item) == item.st \in {"ok", "rej"}

(***************************************************************************)
(* fetchMultipleStreamers                                                  *)
(***************************************************************************)
\* (mutant) the slice runs one id into the next batch
BatchOverlapping(usernames, i) ==
    SubSeq(usernames, i + 1, IF i + batchSize + 1 < Len(usernames)
                             THEN i + batchSize + 1 ELSE Len(usernames))

\* usernames.slice(i, i + batchSize)
Batch(usernames, i) ==
    SubSeq(usernames, i + 1, IF i + batchSize < Len(usernames)
                             THEN i + batchSize ELSE Len(usernames))

\* batch.map(username => this.fetchStreamerInfo(username, options))
RECURSIVE StartBatch(_, _, _)
StartBatch(batch, sig, reqs) ==
    IF batch = <<>>
    THEN [items |-> <<>>, requests |-> reqs]
    ELSE LET f == fetchStreamerInfo(Head(batch), sig, reqs, 0)
             rest == StartBatch(Tail(batch), sig, f.requests)
         IN [items |-> <<f.item>> \o rest.items, requests |-> rest.requests]

\* (mutant) fallback snapshots are dropped from the result
RECURSIVE SuccessfulResultsNoFallback(_)
SuccessfulResultsNoFallback(items) ==
    IF items = <<>> THEN <<>>
    ELSE (IF Head(items).st = "ok" /\ ~Head(items).val.error
          THEN <<Head(items).val>> ELSE <<>>)
         \o SuccessfulResultsNoFallback(Tail(items))

\* batchResults.filter(fulfilled).map(value)
RECURSIVE SuccessfulResults(_)
SuccessfulResults(items) ==
    IF items = <<>> THEN <<>>
    ELSE (IF Head(items).st = "ok" THEN <<Head(items).val>> ELSE <<>>)
         \o SuccessfulResults(Tail(items))

\* (mutant) the batch is awaited with Promise.race
AnySettled(items) == items = <<>> \/ \E k \in DOMAIN items : Settled(items[k])

AllSettled(items) == \A k \in DOMAIN items : Settled(items[k])

(***************************************************************************)
(* A loadStreamers/refreshStreamers call                                   *)
(*   pc: "list" awaiting fetchStreamersList, "batch" awaiting              *)
(*       Promise.allSettled of the batch at names[i+1..], "delay" in the   *)
(*       inter-batch sleep, "resolved" returned after writing streamers    *)
(*   sig: id of the controller whose signal the fetches were given         *)
(*   ghosts: superseded (a later call started while this one was in        *)
(*   flight), hit (sig fired while a fetch of the call was outstanding),   *)
(*   batches (the batches issued), settledAt / startedAt (when the last    *)
(*   finished batch settled / the current batch was issued), prevSettledAt *)
(*   (when the batch before the current one settled), pending (fetches of  *)
(*   the call started and not settled), overlapped (a batch was issued     *)
(*   while pending > 0), failed / rejected (the names whose fetch got a    *)
(*   failure response / was rejected)                                      *)
(***************************************************************************)
NewOp(kind) ==
    [kind |-> kind, pc |-> "list", sig |-> 0, names |-> <<>>, i |-> 0,
     items |-> <<>>, results |-> <<>>, wake |-> 0,
     superseded |-> FALSE, hit |-> FALSE,
     batches |-> <<>>, settledAt |-> 0, prevSettledAt |-> 0, startedAt |-> 0,
     pending |-> 0, overlapped |-> FALSE, failed |-> {}, rejected |-> {}]

Outstanding(op) == \E k \in DOMAIN op.items : ~Settled(op.items[k])

\* this.abortController.abort() as seen by the calls in flight
Supersede ==
    [k \in DOMAIN ops |->
        IF ops[k].pc = "resolved" THEN ops[k]
        ELSE [ops[k] EXCEPT
                !.superseded = TRUE,
                !.hit = @ \/ (/\ abortController # 0
                              /\ ops[k].sig = abortController
                              /\ Outstanding(ops[k]))]]

AbortCurrent ==
    IF abortController # 0 THEN aborted \cup {abortController} ELSE aborted

Unsettled(items) == Cardinality({k \in DOMAIN items : ~Settled(items[k])})

\* the names of a batch whose fetch got a failure response / was rejected
FailedNames(items) ==
    {items[k].name : k \in {j \in DOMAIN items : items[j].resp = "failure"}}

RejectedNames(items) ==
    {items[k].name : k \in {j \in DOMAIN items : items[j].st = "rej"}}

\* fetchMultipleStreamers from its entry to its first suspension
BeginFetchMany(op, usernames, sig, reqs) ==
    LET sb == StartBatch(Batch(usernames, 0), sig, reqs) IN
    [op |-> [op EXCEPT !.pc = "batch", !.sig = sig, !.names = usernames,
                       !.i = 0, !.items = sb.items, !.startedAt = now,
                       !.pending = Unsettled(sb.items),
                       !.batches = IF usernames = <<>> THEN <<>>
                                   ELSE <<Batch(usernames, 0)>>],
     requests |-> sb.requests]

\* after Promise.allSettled: collect, then sleep or return
Continue(op) ==
    IF op.pc = "batch" /\ AllSettled(op.items)
    THEN LET res == op.results \o SuccessfulResults(op.items)
             op1 == [op EXCEPT
                       !.results = res, !.settledAt = now,
                       !.failed = @ \cup FailedNames(op.items),
                       !.rejected = @ \cup RejectedNames(op.items)]
         IN IF op.i + batchSize < Len(op.names)
            THEN [op1 EXCEPT !.pc = "delay", !.wake = now + batchDelayMs]
            ELSE [op1 EXCEPT !.pc = "resolved"]
    ELSE op

FindIndex(strs, name) ==
    IF \E j \in DOMAIN strs : strs[j].name = name
    THEN Min({j \in DOMAIN strs : strs[j].name = name})
    ELSE 0

\* refreshStreamers: updatedStreamers.forEach(...)
RECURSIVE ApplyUpdates(_, _, _)
ApplyUpdates(strs, updated, changed) ==
    IF updated = <<>>
    THEN [streamers |-> strs, changed |-> changed]
    ELSE LET u == Head(updated)
             idx == FindIndex(strs, u.name)
         IN IF idx = 0
            THEN ApplyUpdates(strs, Tail(updated), changed)
            ELSE ApplyUpdates([strs EXCEPT ![idx] = u], Tail(updated),
                              IF strs[idx].live # u.live
                              THEN changed \cup {u.name} ELSE changed)

Event(event, o, name) == [event |-> event, op |-> o, name |-> name]

\* what the call writes when fetchMultipleStreamers has returned
Commit(op) ==
    IF op.kind = "load"
    THEN [streamers |-> op.results, changed |-> {}]
    ELSE ApplyUpdates(streamers, op.results, {})

\* call o of opsBase continues as op2 until its next suspension
Resume(opsBase, o, op2, reqs2, cache2) ==
    LET op3 == Continue(op2) IN
    /\ ops' = [opsBase EXCEPT ![o] = op3]
    /\ requests' = reqs2
    /\ cache' = cache2
    /\ IF op3.pc = "resolved"
       THEN LET c == Commit(op3) IN
            /\ streamers' = c.streamers
            /\ emitted' = emitted
                  \cup {Event("streamerUpdated", o, n) : n \in c.changed}
                  \cup {Event("streamersLoaded", o, 0)}
       ELSE UNCHANGED <<streamers, emitted>>

SetItem(op, k, item) ==
    [op EXCEPT !.items[k] = item,
               !.pending = IF Settled(item) /\ ~Settled(op.items[k]) THEN @ - 1 ELSE @]

(***************************************************************************)
(* Actions                                                                 *)
(***************************************************************************)
Slots == 1..batchSize
\* a non-2xx status other than 429, a transport failure
Failures == {"http", "network"}

loadStreamers ==
    /\ Len(ops) < cfg.maxOps
    /\ aborted' = AbortCurrent
    /\ abortController' = Len(ops) + 1
    /\ ops' = Append(Supersede, NewOp("load"))
    /\ UNCHANGED <<now, ticks, streamers, cache, requests, emitted, cfg, appVars, rlVars, hmVars, fmVars, smVars, ebVars>>

refreshStreamers ==
    /\ Len(ops) < cfg.maxOps
    /\ aborted' = AbortCurrent
    /\ abortController' = Len(ops) + 1
    /\ IF Len(streamers) = 0
       THEN /\ ops' = Append(Supersede, NewOp("load"))
            /\ UNCHANGED <<streamers, cache, requests, emitted>>
       ELSE LET o == Len(ops) + 1
                b == BeginFetchMany(NewOp("refresh"),
                                    [j \in DOMAIN streamers |-> streamers[j].name],
                                    o, requests)
            IN Resume(Append(Supersede, b.op), o, b.op, b.requests, cache)
    /\ UNCHANGED <<now, ticks, cfg, appVars, rlVars, hmVars, fmVars, smVars, ebVars>>

\* destroy(): abort the controller and clear the cache
destroy ==
    /\ abortController # 0
    /\ abortController \notin aborted
    /\ aborted' = AbortCurrent
    /\ cache' = <<>>
    /\ ops' = [k \in DOMAIN ops |-> [Supersede[k] EXCEPT !.superseded = ops[k].superseded]]
    /\ UNCHANGED <<now, ticks, streamers, abortController, requests, emitted, cfg, appVars, rlVars, hmVars, fmVars, smVars, ebVars>>

\* fetchStreamersList settles with the list of the source (or the stored one)
ListDone(o, n) ==
    /\ ops[o].pc = "list"
    /\ LET b == BeginFetchMany(ops[o], Prefix(n), abortController, requests)
       IN Resume(ops, o, b.op, b.requests, cache)
    /\ UNCHANGED <<now, ticks, abortController, aborted, cfg, appVars, rlVars, hmVars, fmVars, smVars, ebVars>>

\* the inter-batch sleep ends: the next batch is issued
DelayDone(o) ==
    /\ ops[o].pc = "delay"
    /\ now >= ops[o].wake
    /\ LET op == ops[o]
           i2 == op.i + batchSize
           sb == StartBatch(Batch(op.names, i2), op.sig, requests)
           op2 == [op EXCEPT !.pc = "batch", !.i = i2, !.items = sb.items,
                             !.startedAt = now, !.prevSettledAt = op.settledAt,
                             !.pending = @ + Unsettled(sb.items),
                             !.overlapped = @ \/ op.pending > 0,
                             !.batches = Append(@, Batch(op.names, i2))]
       IN Resume(ops, o, op2, sb.requests, cache)
    /\ UNCHANGED <<now, ticks, abortController, aborted, cfg, appVars, rlVars, hmVars, fmVars, smVars, ebVars>>

\* the timer of RateLimiter.wait fires: wait() is entered again
RLWake(o, k) ==
    /\ ops[o].pc = "batch"
    /\ k \in DOMAIN ops[o].items
    /\ ops[o].items[k].st = "rl"
    /\ now >= ops[o].items[k].wake
    /\ LET it == ops[o].items[k]
           f == AfterWait(it.name, ops[o].sig, requests, it.attempts)
       IN Resume(ops, o, SetItem(ops[o], k, [f.item EXCEPT !.resp = it.resp]),
                 f.requests, cache)
    /\ UNCHANGED <<now, ticks, abortController, aborted, cfg, appVars, rlVars, hmVars, fmVars, smVars, ebVars>>

\* 2xx: transform, cache, fulfil
OnSuccess(it, data) ==
    LET info == transformStreamerData(data, it.name) IN
    [item |-> [it EXCEPT !.st = "ok", !.val = info, !.resp = "ok"],
     cache |-> (it.name :> [data |-> info, timestamp |-> now]) @@ cache]

\* (mutant) the catch block caches the fallback snapshot
OnFailureCached(it, kind) ==
    LET info == getFallbackStreamerInfo(it.name) IN
    [item |-> [it EXCEPT !.st = "ok", !.val = info, !.resp = "failure"],
     cache |-> (it.name :> [data |-> info, timestamp |-> now]) @@ cache]

\* non-2xx other than 429, or a transport failure: the catch block
OnFailure(it, kind) ==
    [item |-> [it EXCEPT !.st = "ok", !.val = getFallbackStreamerInfo(it.name),
                         !.resp = "failure"],
     cache |-> cache]

\* 429: sleep 2 s, then call fetchStreamerInfo again
OnRateLimited(it) ==
    [item |-> [it EXCEPT !.st = "backoff", !.wake = now + retryDelayMs,
                         !.resp = "429"],
     cache |-> cache]

RespondOk(o, k, data) ==
    /\ ops[o].pc = "batch"
    /\ k \in DOMAIN ops[o].items
    /\ ops[o].items[k].st = "net"
    /\ ops[o].sig \notin aborted
    /\ LET r == OnSuccess(ops[o].items[k], data)
       IN Resume(ops, o, SetItem(ops[o], k, r.item), requests, r.cache)
    /\ UNCHANGED <<now, ticks, abortController, aborted, cfg, appVars, rlVars, hmVars, fmVars, smVars, ebVars>>

RespondFail(o, k, kind) ==
    /\ ops[o].pc = "batch"
    /\ k \in DOMAIN ops[o].items
    /\ ops[o].items[k].st = "net"
    /\ ops[o].sig \notin aborted
    /\ kind \in Failures
    /\ LET r == OnFailure(ops[o].items[k], kind)
       IN Resume(ops, o, SetItem(ops[o], k, r.item), requests, r.cache)
    /\ UNCHANGED <<now, ticks, abortController, aborted, cfg, appVars, rlVars, hmVars, fmVars, smVars, ebVars>>

Respond429(o, k) ==
    /\ ops[o].pc = "batch"
    /\ k \in DOMAIN ops[o].items
    /\ ops[o].items[k].st = "net"
    /\ ops[o].sig \notin aborted
    /\ ops[o].items[k].attempts < MaxAttempts
    /\ LET r == OnRateLimited(ops[o].items[k])
       IN Resume(ops, o, SetItem(ops[o], k, r.item), requests, r.cache)
    /\ UNCHANGED <<now, ticks, abortController, aborted, cfg, appVars, rlVars, hmVars, fmVars, smVars, ebVars>>

\* the signal has fired: the request in flight rejects with AbortError
AbortReject(o, k) ==
    /\ ops[o].pc = "batch"
    /\ k \in DOMAIN ops[o].items
    /\ ops[o].items[k].st = "net"
    /\ ops[o].sig \in aborted
    /\ LET it == ops[o].items[k]
       IN Resume(ops, o, SetItem(ops[o], k, [it EXCEPT !.st = "rej"]),
                 requests, cache)
    /\ UNCHANGED <<now, ticks, abortController, aborted, cfg, appVars, rlVars, hmVars, fmVars, smVars, ebVars>>

\* the 2 s sleep ends: return this.fetchStreamerInfo(username, options)
BackoffDone(o, k) ==
    /\ ops[o].pc = "batch"
    /\ k \in DOMAIN ops[o].items
    /\ ops[o].items[k].st = "backoff"
    /\ now >= ops[o].items[k].wake
    /\ LET it == ops[o].items[k]
           f == fetchStreamerInfo(it.name, ops[o].sig, requests, it.attempts)
       IN Resume(ops, o, SetItem(ops[o], k, [f.item EXCEPT !.resp = it.resp]),
                 f.requests, cache)
    /\ UNCHANGED <<now, ticks, abortController, aborted, cfg, appVars, rlVars, hmVars, fmVars, smVars, ebVars>>

\* clearCache()
clearCache ==
    /\ cache # <<>>
    /\ cache' = <<>>
    /\ UNCHANGED <<now, ticks, streamers, abortController, aborted, requests, ops,
                   emitted, cfg, appVars, rlVars, hmVars, fmVars, smVars, ebVars>>

\* the deadlines of the timers that are pending
Deadlines ==
    UNION {{ops[o].wake : x \in {y \in {0} : ops[o].pc = "delay"}}
           \cup {ops[o].items[k].wake :
                   k \in {j \in DOMAIN ops[o].items :
                            ops[o].items[j].st \in {"rl", "backoff"}}}
           : o \in DOMAIN ops}
    \cup {w.wake : w \in waiting}

\* time passes: to the next tick of the clock or to a later deadline
Tick ==
    /\ ticks < cfg.maxTicks
    /\ ticks' = ticks + 1
    /\ \E t \in {now + TickMs} \cup {d \in Deadlines : d > now} : now' = t
    /\ UNCHANGED <<streamers, cache, abortController, aborted, requests, ops,
                   emitted, cfg, appVars, rlVars, hmVars, fmVars, smVars, ebVars>>

(***************************************************************************)
(* addStreamer / removeStreamer                                            *)
(*   An identifier typed by the user is a number: n > 0 is the name n as   *)
(*   the collection holds it, -n the same name with capitals or blanks     *)
(*   around it, 0 the empty or blank string.                               *)
(*   pc: "proxy" awaiting the answer of the mutation proxy, "info"         *)
(*       awaiting fetchStreamerInfo, "done" returned, "thrown" rejected    *)
(*       with error ("empty", "exists", "pin" or "proxy")                  *)
(***************************************************************************)
\* streamerName.toLowerCase().trim()
NormalizeName(streamerName) == IF streamerName < 0 THEN 0 - streamerName ELSE streamerName

Mutation(kind, name, pc, error) ==
    [kind |-> kind, name |-> name, pc |-> pc, error |-> error,
     item |-> Item(name, "none", 0, NoSnapshot, 0)]

\* this.streamers.some(s => s.name === normalizedName)
HasStreamer(strs, name) == \E j \in DOMAIN strs : strs[j].name = name

\* the frame of the steps of a mutation call that leave the collection alone
MutationFrame ==
    UNCHANGED <<now, ticks, streamers, cache, abortController, aborted, requests,
                ops, emitted, cfg, acall, nmVars, rlVars, hmVars, fmVars, smVars,
                ebVars>>

\* addStreamer(streamerName), up to its first suspension
addStreamer(streamerName) ==
    /\ Len(muts) < cfg.maxMuts
    /\ LET normalizedName == NormalizeName(streamerName) IN
       muts' = Append(muts,
                  IF normalizedName = 0
                  THEN Mutation("add", normalizedName, "thrown", "empty")
                  ELSE IF HasStreamer(streamers, normalizedName)
                  THEN Mutation("add", normalizedName, "thrown", "exists")
                  ELSE Mutation("add", normalizedName, "proxy", ""))
    /\ MutationFrame

\* removeStreamer(streamerName), up to its first suspension: prompt()
\* returns a PIN or nothing
removeStreamer(streamerName, pin) ==
    /\ Len(muts) < cfg.maxMuts
    /\ muts' = Append(muts,
                  IF pin
                  THEN Mutation("remove", NormalizeName(streamerName), "proxy", "")
                  ELSE Mutation("remove", NormalizeName(streamerName), "thrown", "pin"))
    /\ MutationFrame

\* this.streamers.push(streamerInfo); this.emit('streamersLoaded', ...)
Added(m, info) ==
    /\ streamers' = Append(streamers, info)
    /\ emitted' = emitted \cup {Event("streamersLoaded", 0 - m, 0)}

\* (mutant) the collection is changed before the proxy has answered, and
\* stays changed when it refuses
ProxyFailApplied(m) ==
    /\ m \in DOMAIN muts
    /\ muts[m].pc = "proxy"
    /\ muts' = [muts EXCEPT ![m].pc = "thrown", ![m].error = "proxy"]
    /\ streamers' = IF muts[m].kind = "remove"
                    THEN SelectSeq(streamers, LAMBDA s : s.name # muts[m].name)
                    ELSE Append(streamers, getFallbackStreamerInfo(muts[m].name))
    /\ UNCHANGED <<now, ticks, cache, abortController, aborted, requests,
                   ops, emitted, cfg, acall, nmVars, rlVars, hmVars, fmVars, smVars,
                   ebVars>>

\* the proxy answers with a non-2xx status, or the request fails:
\* addStreamerToList / removeStreamerFromList throw, and so does the call
ProxyFail(m) ==
    /\ m \in DOMAIN muts
    /\ muts[m].pc = "proxy"
    /\ muts' = [muts EXCEPT ![m].pc = "thrown", ![m].error = "proxy"]
    /\ MutationFrame

\* the proxy answers 2xx: removeStreamer filters the collection;
\* addStreamer calls fetchStreamerInfo (without a signal), which returns
\* the cached snapshot or suspends
ProxyOk(m) ==
    /\ m \in DOMAIN muts
    /\ muts[m].pc = "proxy"
    /\ IF muts[m].kind = "remove"
       THEN /\ streamers' = SelectSeq(streamers, LAMBDA s : s.name # muts[m].name)
            /\ emitted' = emitted \cup {Event("streamersLoaded", 0 - m, 0)}
            /\ muts' = [muts EXCEPT ![m].pc = "done"]
            /\ UNCHANGED <<requests, cache>>
       ELSE LET f == fetchStreamerInfo(muts[m].name, 0, requests, 0) IN
            /\ requests' = f.requests
            /\ UNCHANGED cache
            /\ IF f.item.st = "ok"
               THEN /\ Added(m, f.item.val)
                    /\ muts' = [muts EXCEPT ![m].pc = "done", ![m].item = f.item]
               ELSE /\ muts' = [muts EXCEPT ![m].pc = "info", ![m].item = f.item]
                    /\ UNCHANGED <<streamers, emitted>>
    /\ UNCHANGED <<now, ticks, abortController, aborted, ops, cfg, acall, nmVars,
                   rlVars, hmVars, fmVars, smVars, ebVars>>

\* the channel API answers the fetchStreamerInfo of an addStreamer call:
\* the snapshot, or after a failure the fallback snapshot, is pushed
InfoDone(m, r) ==
    /\ muts' = [muts EXCEPT ![m].pc = "done", ![m].item = r.item]
    /\ cache' = r.cache
    /\ Added(m, r.item.val)
    /\ UNCHANGED <<now, ticks, abortController, aborted, requests, ops, cfg, acall,
                   nmVars, rlVars, hmVars, fmVars, smVars, ebVars>>

InfoOk(m, data) ==
    /\ m \in DOMAIN muts
    /\ muts[m].pc = "info"
    /\ muts[m].item.st = "net"
    /\ InfoDone(m, OnSuccess(muts[m].item, data))

InfoFail(m, kind) ==
    /\ m \in DOMAIN muts
    /\ muts[m].pc = "info"
    /\ muts[m].item.st = "net"
    /\ InfoDone(m, OnFailure(muts[m].item, kind))

(***************************************************************************)
(* RateLimiter.wait called directly by concurrent callers                  *)
(***************************************************************************)
\* a caller enters wait(): it is admitted or suspended
wait ==
    /\ issued < MaxCalls
    /\ issued' = issued + 1
    /\ LET w == RLWait(requests) IN
       /\ requests' = w.requests
       /\ IF w.admitted
          THEN admitLog' = Append(admitLog, now) /\ UNCHANGED waiting
          ELSE /\ waiting' = waiting \cup {[id |-> issued + 1, wake |-> w.wake]}
               /\ UNCHANGED admitLog
    /\ UNCHANGED <<now, ticks, streamers, cache, abortController, aborted, ops,
                   emitted, cfg, appVars, hmVars, fmVars, smVars, ebVars>>

\* the timer of a suspended caller fires: return this.wait()
waitAgain(c) ==
    /\ c \in waiting
    /\ now >= c.wake
    /\ LET w == RLWait(requests) IN
       /\ requests' = w.requests
       /\ IF w.admitted
          THEN /\ admitLog' = Append(admitLog, now)
               /\ waiting' = waiting \ {c}
          ELSE /\ waiting' = (waiting \ {c}) \cup {[id |-> c.id, wake |-> w.wake]}
               /\ UNCHANGED admitLog
    /\ UNCHANGED <<now, ticks, issued, streamers, cache, abortController, aborted,
                   ops, emitted, cfg, appVars, hmVars, fmVars, smVars, ebVars>>

(***************************************************************************)
(* HistoryManager                                                          *)
(* Times are in minutes.  Null stands for null and for a field not set;    *)
(* the live flag of a snapshot is "true", "false" or "undefined" (absent), *)
(* its viewer count a number or Undefined (absent).                        *)
(***************************************************************************)
Null == 0 - 1
Undefined == 0 - 2
\* the snapshots of the fetch pipeline (live with viewers, offline with 0)
\* and snapshots with the live flag or the viewer count missing
SnapshotShapes ==
    {[live |-> "true", viewers |-> 50], [live |-> "true", viewers |-> 80],
     [live |-> "false", viewers |-> 0], [live |-> "false", viewers |-> Undefined],
     [live |-> "undefined", viewers |-> Undefined]}
maxHistoryDays == 30
MinutesPerDay == 24 * 60
viewerHistoryEvery == 5
sessionSampleEvery == 2

\* JavaScript truthiness of a number-or-null and of the live flag
Truthy(x) == x # Null /\ x # Undefined /\ x # 0
IsLive(flag) == flag = "true"
\* x || 0
OrZero(x) == IF Truthy(x) THEN x ELSE 0

RECURSIVE Sum(_)
Sum(seq) == IF seq = <<>> THEN 0 ELSE Head(seq) + Sum(Tail(seq))

\* Math.round of a non-negative quotient
RoundDiv(a, b) == (2 * a + b) \div (2 * b)

EmptyHistory ==
    [sessions |-> <<>>, viewerHistory |-> <<>>, statusChanges |-> <<>>,
     lastSeen |-> Null, totalStreamTime |-> 0, averageViewers |-> 0,
     peakViewers |-> 0, streamCount |-> 0]

startStreamSession(history, statusChange, id) ==
    LET session == [id |-> id,
                    startTime |-> statusChange.timestamp,
                    endTime |-> Null,
                    startViewers |-> statusChange.viewers,
                    peakViewers |-> statusChange.viewers,
                    endViewers |-> Null,
                    viewerSamples |-> <<[timestamp |-> statusChange.timestamp,
                                         viewers |-> statusChange.viewers]>>,
                    duration |-> 0,
                    averageViewers |-> Null]
    IN [history EXCEPT !.sessions = Append(@, session),
                       !.streamCount = @ + 1]

updateAverageViewers(history) ==
    LET completed == SelectSeq(history.sessions, LAMBDA s : Truthy(s.endTime))
        totalViewerTime ==
            Sum([j \in DOMAIN completed |->
                    OrZero(completed[j].averageViewers) * OrZero(completed[j].duration)])
        totalDuration == Sum([j \in DOMAIN completed |-> OrZero(completed[j].duration)])
    IN IF completed # <<>> /\ totalDuration > 0
       THEN [history EXCEPT !.averageViewers = RoundDiv(totalViewerTime, totalDuration)]
       ELSE history

\* (mutant) closing fills the session in but leaves endTime null
endStreamSessionKeepsOpen(history, statusChange) ==
    IF history.sessions = <<>> THEN history
    ELSE LET n == Len(history.sessions)
             lastSession == history.sessions[n]
             duration == statusChange.timestamp - lastSession.startTime
         IN IF Truthy(lastSession.endTime) THEN history
            ELSE [history EXCEPT !.sessions[n].endViewers = statusChange.viewers,
                                 !.sessions[n].duration = duration,
                                 !.totalStreamTime = @ + duration]

\* (mutant) closing does not check that the session has ended already
endStreamSessionAgain(history, statusChange) ==
    IF history.sessions = <<>> THEN history
    ELSE LET n == Len(history.sessions)
             lastSession == history.sessions[n]
             duration == statusChange.timestamp - lastSession.startTime
         IN [history EXCEPT !.sessions[n].endTime = statusChange.timestamp,
                            !.sessions[n].endViewers = statusChange.viewers,
                            !.sessions[n].duration = duration,
                            !.totalStreamTime = @ + duration]

\* (mutant) closing a session counts it as a stream
endStreamSessionCounts(history, statusChange) ==
    IF history.sessions = <<>> THEN history
    ELSE LET n == Len(history.sessions)
             lastSession == history.sessions[n]
             duration == statusChange.timestamp - lastSession.startTime
         IN IF Truthy(lastSession.endTime) THEN history
            ELSE [history EXCEPT !.sessions[n].endTime = statusChange.timestamp,
                                 !.sessions[n].endViewers = statusChange.viewers,
                                 !.sessions[n].duration = duration,
                                 !.totalStreamTime = @ + duration,
                                 !.streamCount = @ + 1]

endStreamSession(history, statusChange) ==
    IF history.sessions = <<>> THEN history
    ELSE LET n == Len(history.sessions)
             lastSession == history.sessions[n]
         IN IF Truthy(lastSession.endTime) THEN history
            ELSE LET duration == statusChange.timestamp - lastSession.startTime
                     samples == lastSession.viewerSamples
                     closed == [lastSession EXCEPT
                                  !.endTime = statusChange.timestamp,
                                  !.endViewers = statusChange.viewers,
                                  !.duration = duration,
                                  !.averageViewers =
                                      IF samples # <<>>
                                      THEN RoundDiv(Sum([j \in DOMAIN samples |->
                                                            samples[j].viewers]),
                                                    Len(samples))
                                      ELSE @]
                 IN updateAverageViewers(
                        [history EXCEPT !.sessions[n] = closed,
                                        !.totalStreamTime = @ + duration])

\* (mutant) the session's peak follows the session's samples
recordViewerCountSampledPeak(history, viewers, timestamp) ==
    LET vh == history.viewerHistory
        sample == [timestamp |-> timestamp, viewers |-> viewers]
        h1 == IF vh = <<>> \/ timestamp - vh[Len(vh)].timestamp >= viewerHistoryEvery
              THEN [history EXCEPT !.viewerHistory = Append(@, sample)]
              ELSE history
        n == Len(h1.sessions)
    IN IF n > 0 /\ ~Truthy(h1.sessions[n].endTime)
       THEN LET cur == h1.sessions[n]
                vs == cur.viewerSamples
            IN IF vs = <<>> \/ timestamp - vs[Len(vs)].timestamp >= sessionSampleEvery
               THEN [h1 EXCEPT !.sessions[n].viewerSamples = Append(@, sample),
                               !.sessions[n].peakViewers =
                                   IF viewers > @ THEN viewers ELSE @]
               ELSE h1
       ELSE h1

\* (mutant) every live snapshot is sampled
recordViewerCountEvery(history, viewers, timestamp) ==
    LET sample == [timestamp |-> timestamp, viewers |-> viewers]
        h1 == [history EXCEPT !.viewerHistory = Append(@, sample)]
        n == Len(h1.sessions)
    IN IF n > 0 /\ ~Truthy(h1.sessions[n].endTime)
       THEN [h1 EXCEPT !.sessions[n].viewerSamples = Append(@, sample),
                       !.sessions[n].peakViewers = IF viewers > @ THEN viewers ELSE @]
       ELSE h1

recordViewerCount(history, viewers, timestamp) ==
    LET vh == history.viewerHistory
        sample == [timestamp |-> timestamp, viewers |-> viewers]
        h1 == IF vh = <<>> \/ timestamp - vh[Len(vh)].timestamp >= viewerHistoryEvery
              THEN [history EXCEPT !.viewerHistory = Append(@, sample)]
              ELSE history
        n == Len(h1.sessions)
    IN IF n > 0 /\ ~Truthy(h1.sessions[n].endTime)
       THEN LET cur == h1.sessions[n]
                vs == cur.viewerSamples
                cur1 == IF vs = <<>> \/ timestamp - vs[Len(vs)].timestamp >= sessionSampleEvery
                        THEN [cur EXCEPT !.viewerSamples = Append(@, sample)]
                        ELSE cur
                cur2 == IF viewers > cur1.peakViewers
                        THEN [cur1 EXCEPT !.peakViewers = viewers]
                        ELSE cur1
            IN [h1 EXCEPT !.sessions[n] = cur2]
       ELSE h1

\* JSON.stringify drops a property whose value is undefined; reading the
\* property of the parsed object gives undefined again
JSONStringify(data) ==
    [n \in DOMAIN data |->
        [data[n] EXCEPT !.statusChanges =
            [j \in DOMAIN @ |->
                [@[j] EXCEPT !.live = IF @ = "undefined" THEN "absent" ELSE @]]]]

JSONParse(text) ==
    [n \in DOMAIN text |->
        [text[n] EXCEPT !.statusChanges =
            [j \in DOMAIN @ |->
                [@[j] EXCEPT !.live = IF @ = "absent" THEN "undefined" ELSE @]]]]

\* (mutant) the map is written as it was before the call changed it
saveHistoryDataStale(data, written) ==
    IF written THEN JSONStringify(historyData) ELSE stored

\* the value under 'streamHistory' after saveHistoryData() of the map data:
\* StorageManager.set swallows a failed localStorage.setItem
saveHistoryData(data, written) ==
    IF written THEN JSONStringify(data) ELSE stored

\* the history of streamer.name after recordStreamerUpdate(streamer) at hnow
UpdatedHistory(streamer) ==
    LET history == IF streamer.name \in DOMAIN historyData
                   THEN historyData[streamer.name] ELSE EmptyHistory
        sc == history.statusChanges
        statusChange == [timestamp |-> hnow, live |-> streamer.live,
                         viewers |-> OrZero(streamer.viewers)]
        h1 == IF sc = <<>> \/ sc[Len(sc)].live # streamer.live
              THEN LET h == [history EXCEPT !.statusChanges = Append(@, statusChange)]
                   IN IF IsLive(streamer.live)
                      THEN startStreamSession(h, statusChange, nextSession + 1)
                      ELSE endStreamSession(h, statusChange)
              ELSE history
        h2 == IF IsLive(streamer.live)
              THEN [recordViewerCount(h1, OrZero(streamer.viewers), hnow)
                      EXCEPT !.lastSeen = hnow]
              ELSE IF ~Truthy(h1.lastSeen) THEN [h1 EXCEPT !.lastSeen = hnow]
              ELSE h1
    IN IF streamer.viewers # Undefined /\ streamer.viewers > h2.peakViewers
       THEN [h2 EXCEPT !.peakViewers = streamer.viewers]
       ELSE h2

\* what the live snapshots of the session opened last have shown, after
\* streamer was recorded (opened: the call appended a session)
Observe(streamer, opened) ==
    LET v == OrZero(streamer.viewers) IN
    IF ~IsLive(streamer.live) THEN observed
    ELSE IF opened
    THEN (streamer.name :> [id |-> nextSession + 1, start |-> v, last |-> v, max |-> v])
         @@ observed
    ELSE IF streamer.name \in DOMAIN observed
    THEN [observed EXCEPT ![streamer.name].last = v,
                          ![streamer.name].max = IF v > @ THEN v ELSE @]
    ELSE observed

recordStreamerUpdate(streamer, written) ==
    /\ updates < cfg.maxUpdates
    /\ updates' = updates + 1
    /\ IF ~isInitialized
       THEN UNCHANGED <<historyData, stored, nextSession, observed>>
       ELSE LET h == UpdatedHistory(streamer)
                opened == h.sessions # <<>>
                          /\ h.sessions[Len(h.sessions)].id = nextSession + 1
            IN
            /\ historyData' = (streamer.name :> h) @@ historyData
            /\ stored' = saveHistoryData(historyData', written)
            /\ nextSession' = IF opened THEN nextSession + 1 ELSE nextSession
            /\ observed' = Observe(streamer, opened)
    /\ UNCHANGED <<hnow, isInitialized>>
    /\ UNCHANGED <<now, ticks, streamers, cache, abortController, aborted,
                   requests, ops, emitted, cfg, appVars, rlVars, fmVars, smVars, ebVars>>

\* (mutant) the records at the horizon are purged with the older ones
PurgedAtHorizon(history, cutoffTime) ==
    [history EXCEPT
       !.sessions = SelectSeq(@, LAMBDA s : s.startTime > cutoffTime),
       !.viewerHistory = SelectSeq(@, LAMBDA v : v.timestamp > cutoffTime),
       !.statusChanges = SelectSeq(@, LAMBDA c : c.timestamp > cutoffTime)]

Purged(history, cutoffTime) ==
    [history EXCEPT
       !.sessions = SelectSeq(@, LAMBDA s : s.startTime >= cutoffTime),
       !.viewerHistory = SelectSeq(@, LAMBDA v : v.timestamp >= cutoffTime),
       !.statusChanges = SelectSeq(@, LAMBDA c : c.timestamp >= cutoffTime)]

CutoffTime == hnow - maxHistoryDays * MinutesPerDay

cleanupOldData(written) ==
    /\ isInitialized
    /\ historyData' = [n \in DOMAIN historyData |-> Purged(historyData[n], CutoffTime)]
    /\ stored' = saveHistoryData(historyData', written)
    /\ UNCHANGED <<hnow, isInitialized, nextSession, updates, observed>>
    /\ UNCHANGED <<now, ticks, streamers, cache, abortController, aborted,
                   requests, ops, emitted, cfg, appVars, rlVars, fmVars, smVars, ebVars>>

\* init(): loadHistoryData, cleanupOldData
init(written) ==
    /\ ~isInitialized
    /\ isInitialized' = TRUE
    /\ historyData' = [n \in DOMAIN stored |-> Purged(JSONParse(stored)[n], CutoffTime)]
    /\ stored' = saveHistoryData(historyData', written)
    /\ UNCHANGED <<hnow, nextSession, updates, observed>>
    /\ UNCHANGED <<now, ticks, streamers, cache, abortController, aborted,
                   requests, ops, emitted, cfg, appVars, rlVars, fmVars, smVars, ebVars>>

HTickSteps == {sessionSampleEvery, maxHistoryDays * MinutesPerDay}

HTick(d) ==
    /\ ticks < cfg.maxTicks
    /\ ticks' = ticks + 1
    /\ hnow' = hnow + d
    /\ UNCHANGED <<historyData, isInitialized, stored, nextSession, updates, observed>>
    /\ UNCHANGED <<now, streamers, cache, abortController, aborted,
                   requests, ops, emitted, cfg, appVars, rlVars, fmVars, smVars, ebVars>>

Snapshots(names) ==
    {[name |-> n, live |-> sh.live, viewers |-> sh.viewers] :
        n \in names, sh \in SnapshotShapes}

(***************************************************************************)
(* The analytics of the HistoryManager                                     *)
(***************************************************************************)
\* a / b as JavaScript computes it and does not round: a number, or for
\* b = 0 NaN or an infinity
Quotient(a, b) == [num |-> a, den |-> b]
IsZero(q) == q.num = 0 /\ q.den # 0
IsNumber(q) == q.den # 0

\* Math.round(p / q) for q > 0
Round(p, q) == (2 * p + q) \div (2 * q)

\* Math.max(...values, 0)
MaxOrZero(values) == IF values = {} THEN 0
                     ELSE CHOOSE x \in values \cup {0} : \A y \in values \cup {0} : y <= x

calculateAverageViewers(sessions) ==
    IF sessions = <<>> THEN 0
    ELSE LET counted == SelectSeq(sessions, LAMBDA s : /\ Truthy(s.averageViewers)
                                                       /\ Truthy(s.duration))
             totalViewerTime == Sum([j \in DOMAIN counted |->
                                        counted[j].averageViewers * counted[j].duration])
             totalDuration == Sum([j \in DOMAIN counted |-> counted[j].duration])
         IN IF totalDuration > 0 THEN Round(totalViewerTime, totalDuration) ELSE 0

\* the means of the two halves are s1 / n1 and s2 / n2
calculateViewerGrowth(viewerHistory) ==
    IF Len(viewerHistory) < 2 THEN 0
    ELSE LET n1 == Len(viewerHistory) \div 2
             n2 == Len(viewerHistory) - n1
             s1 == Sum([j \in 1..n1 |-> viewerHistory[j].viewers])
             s2 == Sum([j \in 1..n2 |-> viewerHistory[n1 + j].viewers])
         IN IF s1 = 0 THEN 0
            ELSE Round((s2 * n1 - s1 * n2) * 100, n2 * s1)

\* getStreamerAnalytics(streamerName, days) for the history of the entity,
\* at this time: the numbers of the result
getStreamerAnalytics(history, days, time) ==
    LET cutoffTime == time - days * MinutesPerDay
        recentSessions == SelectSeq(history.sessions, LAMBDA s : s.startTime >= cutoffTime)
        recentViewerHistory ==
            SelectSeq(history.viewerHistory, LAMBDA v : v.timestamp >= cutoffTime)
        recentStatusChanges ==
            SelectSeq(history.statusChanges, LAMBDA s : s.timestamp >= cutoffTime)
        totalStreamTime ==
            Sum([j \in DOMAIN recentSessions |-> OrZero(recentSessions[j].duration)])
        streamCount == Len(SelectSeq(recentSessions, LAMBDA s : Truthy(s.endTime)))
        liveEvents == SelectSeq(recentStatusChanges, LAMBDA s : IsLive(s.live))
    IN [totalStreamTime |-> totalStreamTime,
        streamCount |-> streamCount,
        averageStreamDuration |-> IF streamCount > 0
                                  THEN Quotient(totalStreamTime, streamCount)
                                  ELSE Quotient(0, 1),
        peakViewers |-> MaxOrZero({OrZero(recentSessions[j].peakViewers) :
                                      j \in DOMAIN recentSessions}),
        averageViewers |-> calculateAverageViewers(recentSessions),
        streamFrequency |-> Quotient(Len(liveEvents), IF days > 1 THEN days ELSE 1),
        viewerGrowth |-> calculateViewerGrowth(recentViewerHistory)]

\* the windows the analytics are asked for: none, and the default
AnalyticsDays == {0, 7}

\* a caller asks for the analytics of an entity that has a history
callGetStreamerAnalytics(streamerName, days) ==
    /\ acall.op = "none"
    /\ streamerName \in DOMAIN historyData
    /\ acall' = [op |-> "getStreamerAnalytics", name |-> streamerName, days |-> days,
                 at |-> hnow, history |-> historyData[streamerName],
                 result |-> getStreamerAnalytics(historyData[streamerName], days, hnow)]
    /\ UNCHANGED <<now, ticks, streamers, cache, abortController, aborted, requests,
                   ops, emitted, cfg, muts, nmVars, rlVars, hmVars, fmVars, smVars,
                   ebVars>>

(***************************************************************************)
(* The event buses of the managers (on / emit)                             *)
(***************************************************************************)
Buses == {"StreamerManager", "FilterManager", "HistoryManager", "NotificationManager"}
\* what a callback does when it is called
Callbacks == {"returns", "throws"}

\* forEach(callback => { try { callback(data) } catch ... }): every callback
\* is called and nothing is thrown
emitGuarded(callbacks) == [called |-> DOMAIN callbacks, threw |-> FALSE]

\* forEach(callback => callback(data)): the first callback that throws ends
\* the loop and its exception leaves emit
emitUnguarded(callbacks) ==
    LET throwers == {j \in DOMAIN callbacks : callbacks[j] = "throws"}
    IN IF throwers = {} THEN [called |-> DOMAIN callbacks, threw |-> FALSE]
       ELSE [called |-> 1..Min(throwers), threw |-> TRUE]

\* emit(event, data) of the bus
emit(bus) ==
    IF bus = "FilterManager" THEN emitUnguarded(eventListeners[bus])
    ELSE emitGuarded(eventListeners[bus])

NoEmit == [bus |-> "", by |-> "", called |-> {}, threw |-> FALSE]

\* emit is called on the bus, by a publisher ("emit") or from within a
\* setter of the manager ("setter"); an exception that leaves emit leaves
\* the setter as well
Emit(bus, by) ==
    /\ elog' = [bus |-> bus, by |-> by] @@ emit(bus)
    /\ UNCHANGED eventListeners

\* on(event, callback)
on(bus, callback) ==
    /\ Cardinality({<<b, j>> \in Buses \X (1..cfg.maxListeners) :
                       j \in DOMAIN eventListeners[b]}) < cfg.maxListeners
    /\ eventListeners' = [eventListeners EXCEPT ![bus] = Append(@, callback)]
    /\ elog' = NoEmit
    /\ UNCHANGED <<now, ticks, streamers, cache, abortController, aborted, requests,
                   ops, emitted, cfg, appVars, rlVars, hmVars, fmVars, smVars>>

\* a publisher calls emit
callEmit(bus) ==
    /\ elog.bus = ""
    /\ Emit(bus, "emit")
    /\ UNCHANGED <<now, ticks, streamers, cache, abortController, aborted, requests,
                   ops, emitted, cfg, appVars, rlVars, hmVars, fmVars, smVars>>

InitBus ==
    /\ eventListeners = [bus \in Buses |-> <<>>]
    /\ elog = NoEmit

(***************************************************************************)
(* FilterManager                                                           *)
(***************************************************************************)
StatusValues == {"all", "live", "offline", "favorites"}
ViewerRanges == <<"0-100", "100-500", "500-1000", "1000-5000", "5000+">>
\* the five buckets, 'all' and a value that is none of them
ViewerValues == {"all", "1K+"} \cup Range(ViewerRanges)
CategoryValues == {"all", "Music"}
SearchValues == {"", "music"}
DurationBuckets == {"all", "<1h", "1-4h", "4h+", "offline"}
\* a value that is none of them
DurationValues == DurationBuckets \cup {"8h+"}
LanguageValues == {"all", "en"}
SortKeys == {"status", "viewers", "name", "category", "duration", "offline-time",
             "followers"}
SortDirections == {"asc", "desc"}

FilterValues ==
    [status |-> StatusValues, viewers |-> ViewerValues, category |-> CategoryValues,
     search |-> SearchValues, duration |-> DurationValues, language |-> LanguageValues]

DefaultFilters ==
    [status |-> "all", viewers |-> "all", category |-> "all", search |-> "",
     duration |-> "all", language |-> "all"]

\* the snapshots the queries are asked about: streamedMin is
\* Date.now() - streamStartTime in minutes (Null without a start time)
StreamerShapes ==
    {[live |-> TRUE, viewers |-> 50, category |-> "Music", isFavorite |-> TRUE,
      language |-> "en", streamedMin |-> 30, lastSeen |-> Null, followers |-> 10],
     [live |-> TRUE, viewers |-> 120, category |-> "Gaming", isFavorite |-> FALSE,
      language |-> "en", streamedMin |-> 240, lastSeen |-> Null, followers |-> 20],
     [live |-> FALSE, viewers |-> 0, category |-> "", isFavorite |-> FALSE,
      language |-> "es", streamedMin |-> Null, lastSeen |-> 5, followers |-> 10]}

\* live snapshots with a viewer count on and next to every bucket edge, and
\* one without a viewer count
ViewerEdges == {0, 100, 101, 500, 501, 1000, 1001, 5000, 5001, Undefined}

EdgeShapes ==
    {[live |-> TRUE, viewers |-> v, category |-> "Music", isFavorite |-> FALSE,
      language |-> "en", streamedMin |-> 30, lastSeen |-> Null, followers |-> 10] :
        v \in ViewerEdges}

Streamers(names, shapes) ==
    {[name |-> n, live |-> sh.live, viewers |-> sh.viewers, category |-> sh.category,
      isFavorite |-> sh.isFavorite, language |-> sh.language,
      streamedMin |-> sh.streamedMin, lastSeen |-> sh.lastSeen,
      followers |-> sh.followers] : n \in names, sh \in shapes}

\* the arrays of at most n elements of pool
Arrays(pool, n) == UNION {[1..k -> pool] : k \in 0..n}

\* an array object: its elements and whether it is the caller's array
Fresh(elems) == [elems |-> elems, own |-> FALSE]

applyStatusFilter(arr) ==
    CASE filters.status = "live" -> Fresh(SelectSeq(arr.elems, LAMBDA s : s.live))
      [] filters.status = "offline" -> Fresh(SelectSeq(arr.elems, LAMBDA s : ~s.live))
      [] filters.status = "favorites" -> Fresh(SelectSeq(arr.elems, LAMBDA s : s.isFavorite))
      [] OTHER -> arr

InViewerRange(viewerRange, viewers) ==
    CASE viewerRange = "0-100" -> viewers >= 0 /\ viewers <= 100
      [] viewerRange = "100-500" -> viewers > 100 /\ viewers <= 500
      [] viewerRange = "500-1000" -> viewers > 500 /\ viewers <= 1000
      [] viewerRange = "1000-5000" -> viewers > 1000 /\ viewers <= 5000
      [] viewerRange = "5000+" -> viewers > 5000
      [] OTHER -> TRUE

applyViewerFilter(arr) ==
    IF filters.viewers = "all" THEN arr
    ELSE Fresh(SelectSeq(arr.elems,
                         LAMBDA s : InViewerRange(filters.viewers, OrZero(s.viewers))))

applyCategoryFilter(arr) ==
    IF filters.category = "all" THEN arr
    ELSE Fresh(SelectSeq(arr.elems, LAMBDA s : s.category = filters.category))

\* the lower-cased searchable text of the snapshots contains the query
\* 'music' exactly for the category 'Music'
Includes(streamer, query) == query = "music" /\ streamer.category = "Music"

applySearchFilter(arr) ==
    IF filters.search = "" THEN arr
    ELSE Fresh(SelectSeq(arr.elems, LAMBDA s : Includes(s, filters.search)))

\* (mutant) the entities that are not live go through the time ranges too
InDurationNoGuard(duration, streamer) ==
    CASE duration = "<1h" -> OrZero(streamer.streamedMin) < 60
      [] duration = "1-4h" ->
           OrZero(streamer.streamedMin) >= 60 /\ OrZero(streamer.streamedMin) <= 240
      [] duration = "4h+" -> OrZero(streamer.streamedMin) > 240
      [] duration = "offline" -> ~streamer.live
      [] OTHER -> TRUE

InDuration(duration, streamer) ==
    IF ~streamer.live \/ ~Truthy(streamer.streamedMin) THEN duration = "offline"
    ELSE CASE duration = "<1h" -> streamer.streamedMin < 60
           [] duration = "1-4h" -> streamer.streamedMin >= 60 /\ streamer.streamedMin <= 240
           [] duration = "4h+" -> streamer.streamedMin > 240
           [] duration = "offline" -> ~streamer.live
           [] OTHER -> TRUE

applyDurationFilter(arr) ==
    IF filters.duration = "all" THEN arr
    ELSE Fresh(SelectSeq(arr.elems, LAMBDA s : InDuration(filters.duration, s)))

applyLanguageFilter(arr) ==
    IF filters.language = "all" THEN arr
    ELSE Fresh(SelectSeq(arr.elems, LAMBDA s : s.language = filters.language))

\* true - false = 1
Num(b) == IF b THEN 1 ELSE 0
Sign(x) == IF x < 0 THEN 0 - 1 ELSE IF x > 0 THEN 1 ELSE 0
\* String.prototype.localeCompare on names (numbered in collation order)
\* and on the categories
CategoryRank(c) == CASE c = "" -> 0 [] c = "Gaming" -> 1 [] c = "Music" -> 2
localeCompare(x, y) == Sign(x - y)

\* the comparator of applySorting before the direction is applied
Comparison(a, b) ==
    CASE sortBy = "status" ->
           IF a.live # b.live THEN Num(b.live) - Num(a.live)
           ELSE IF a.live /\ b.live THEN OrZero(b.viewers) - OrZero(a.viewers)
           ELSE localeCompare(a.name, b.name)
      [] sortBy = "viewers" -> OrZero(b.viewers) - OrZero(a.viewers)
      [] sortBy = "name" -> localeCompare(a.name, b.name)
      [] sortBy = "category" ->
           localeCompare(CategoryRank(a.category), CategoryRank(b.category))
      [] sortBy = "duration" ->
           IF a.live /\ b.live THEN OrZero(b.streamedMin) - OrZero(a.streamedMin)
           ELSE IF a.live # b.live THEN Num(b.live) - Num(a.live)
           ELSE 0
      [] sortBy = "offline-time" ->
           IF ~a.live /\ ~b.live THEN OrZero(b.lastSeen) - OrZero(a.lastSeen)
           ELSE IF a.live # b.live THEN Num(a.live) - Num(b.live)
           ELSE 0
      [] sortBy = "followers" -> OrZero(b.followers) - OrZero(a.followers)
      [] OTHER -> 0

Compare(a, b) == Comparison(a, b) * (IF sortDirection = "asc" THEN 1 ELSE 0 - 1)

\* Array.prototype.sort is stable: x goes behind the last element that
\* does not compare greater than it
InsertSorted(sorted, x) ==
    LET le == {j \in DOMAIN sorted : Compare(sorted[j], x) <= 0}
        k == IF le = {} THEN 0 ELSE CHOOSE j \in le : \A i \in le : i <= j
    IN SubSeq(sorted, 1, k) \o <<x>> \o SubSeq(sorted, k + 1, Len(sorted))

RECURSIVE Sort(_)
Sort(elems) ==
    IF elems = <<>> THEN <<>>
    ELSE InsertSorted(Sort(SubSeq(elems, 1, Len(elems) - 1)), elems[Len(elems)])

\* sorts the array it is given in place and returns it
applySorting(arr) == [arr EXCEPT !.elems = Sort(@)]

\* (mutant) the filters work on the caller's array
applyFiltersInPlace(list) ==
    LET filtered ==
            applySorting(applyLanguageFilter(applyDurationFilter(applySearchFilter(
                applyCategoryFilter(applyViewerFilter(applyStatusFilter(
                    [elems |-> list, own |-> TRUE])))))))
    IN [result |-> filtered.elems,
        input |-> IF filtered.own THEN filtered.elems ELSE list]

\* applyFilters(streamers): the array returned and the caller's array after
\* the call
applyFilters(list) ==
    LET filtered ==
            applySorting(applyLanguageFilter(applyDurationFilter(applySearchFilter(
                applyCategoryFilter(applyViewerFilter(applyStatusFilter(
                    Fresh(list))))))))
    IN [result |-> filtered.elems,
        input |-> IF filtered.own THEN filtered.elems ELSE list]

\* (mutant) the bucket edges belong to the upper bucket
StatsRangeUpper(viewers) ==
    IF viewers < 100 THEN "0-100"
    ELSE IF viewers < 500 THEN "100-500"
    ELSE IF viewers < 1000 THEN "500-1000"
    ELSE IF viewers < 5000 THEN "1000-5000"
    ELSE "5000+"

\* the bucket getViewerRangeStats counts a viewer count in
StatsRange(viewers) ==
    IF viewers <= 100 THEN "0-100"
    ELSE IF viewers <= 500 THEN "100-500"
    ELSE IF viewers <= 1000 THEN "500-1000"
    ELSE IF viewers <= 5000 THEN "1000-5000"
    ELSE "5000+"

getViewerRangeStats(list) ==
    [r \in Range(ViewerRanges) |->
        Cardinality({j \in DOMAIN list : StatsRange(OrZero(list[j].viewers)) = r})]

\* the bucket createFilterIndex files a viewer count under
IndexRange(viewers) ==
    IF viewers <= 100 THEN "0-100"
    ELSE IF viewers <= 500 THEN "100-500"
    ELSE IF viewers <= 1000 THEN "500-1000"
    ELSE IF viewers <= 5000 THEN "1000-5000"
    ELSE "5000+"

\* the positions (from 1) of the elements that satisfy none of the tests
\* before theirs
Positions(flags) ==
    SelectSeq([j \in DOMAIN flags |-> IF flags[j] THEN j ELSE 0], LAMBDA j : j > 0)

createFilterIndex(list) ==
    [byStatus |->
        [live |-> Positions([j \in DOMAIN list |-> list[j].live]),
         offline |-> Positions([j \in DOMAIN list |-> ~list[j].live])],
     byCategory |->
        [c \in {list[j].category : j \in DOMAIN list} \ {""} |->
            Positions([j \in DOMAIN list |-> list[j].category = c])],
     byViewerRange |->
        [r \in Range(ViewerRanges) |->
            Positions([j \in DOMAIN list |->
                          IndexRange(OrZero(list[j].viewers)) = r])]]

\* index.byX[value] || []
Lookup(table, value) == IF value \in DOMAIN table THEN table[value] ELSE <<>>

\* new Set([...indices].filter(i => other.includes(i)))
Intersect(indices, other) == SelectSeq(indices, LAMBDA i : i \in Range(other))

\* quickFilter(streamers, index) with an index object: the array returned
quickFilter(list, index) ==
    LET applied ==
            (IF filters.status # "all"
             THEN <<Lookup(index.byStatus, filters.status)>> ELSE <<>>)
            \o (IF filters.category # "all"
                THEN <<Lookup(index.byCategory, filters.category)>> ELSE <<>>)
            \o (IF filters.viewers # "all"
                THEN <<Lookup(index.byViewerRange, filters.viewers)>> ELSE <<>>)
        indices ==
            CASE Len(applied) = 0 -> [j \in DOMAIN list |-> j]
              [] Len(applied) = 1 -> applied[1]
              [] Len(applied) = 2 -> Intersect(applied[1], applied[2])
              [] OTHER -> Intersect(Intersect(applied[1], applied[2]), applied[3])
        filtered == Fresh([j \in DOMAIN indices |-> list[indices[j]]])
    IN applySorting(applyLanguageFilter(applyDurationFilter(applySearchFilter(
           filtered)))).elems

NoCall == [op |-> "none", input |-> <<>>, after |-> <<>>, result |-> <<>>]

setFilter(type, value) ==
    /\ fsets < cfg.maxSets
    /\ fsets' = fsets + 1
    /\ filters' = [filters EXCEPT ![type] = value]
    /\ call' = NoCall
    /\ Emit("FilterManager", "setter")
    /\ UNCHANGED <<sortBy, sortDirection>>
    /\ UNCHANGED <<now, ticks, streamers, cache, abortController, aborted,
                   requests, ops, emitted, cfg, appVars, rlVars, hmVars, smVars>>

clearFilters ==
    /\ fsets < cfg.maxSets
    /\ fsets' = fsets + 1
    /\ filters' = DefaultFilters
    /\ call' = NoCall
    /\ Emit("FilterManager", "setter")
    /\ UNCHANGED <<sortBy, sortDirection>>
    /\ UNCHANGED <<now, ticks, streamers, cache, abortController, aborted,
                   requests, ops, emitted, cfg, appVars, rlVars, hmVars, smVars>>

setSortBy(key) ==
    /\ fsets < cfg.maxSets
    /\ fsets' = fsets + 1
    /\ sortBy' = key
    /\ call' = NoCall
    /\ Emit("FilterManager", "setter")
    /\ UNCHANGED <<filters, sortDirection>>
    /\ UNCHANGED <<now, ticks, streamers, cache, abortController, aborted,
                   requests, ops, emitted, cfg, appVars, rlVars, hmVars, smVars>>

setSortDirection(direction) ==
    /\ fsets < cfg.maxSets
    /\ fsets' = fsets + 1
    /\ sortDirection' = direction
    /\ call' = NoCall
    /\ Emit("FilterManager", "setter")
    /\ UNCHANGED <<filters, sortBy>>
    /\ UNCHANGED <<now, ticks, streamers, cache, abortController, aborted,
                   requests, ops, emitted, cfg, appVars, rlVars, hmVars, smVars>>

toggleSortDirection ==
    /\ fsets < cfg.maxSets
    /\ fsets' = fsets + 1
    /\ sortDirection' = IF sortDirection = "asc" THEN "desc" ELSE "asc"
    /\ call' = NoCall
    /\ Emit("FilterManager", "setter")
    /\ UNCHANGED <<filters, sortBy>>
    /\ UNCHANGED <<now, ticks, streamers, cache, abortController, aborted,
                   requests, ops, emitted, cfg, appVars, rlVars, hmVars, smVars>>

\* a caller asks applyFilters about its array
callApplyFilters(input) ==
    /\ call.op = "none"
    /\ LET r == applyFilters(input) IN
       call' = [op |-> "applyFilters", input |-> input, after |-> r.input,
                result |-> r.result]
    /\ UNCHANGED <<filters, sortBy, sortDirection, fsets>>
    /\ UNCHANGED <<now, ticks, streamers, cache, abortController, aborted,
                   requests, ops, emitted, cfg, appVars, rlVars, hmVars, smVars, ebVars>>

callGetViewerRangeStats(input) ==
    /\ call.op = "none"
    /\ call' = [op |-> "getViewerRangeStats", input |-> input, after |-> input,
                result |-> getViewerRangeStats(input)]
    /\ UNCHANGED <<filters, sortBy, sortDirection, fsets>>
    /\ UNCHANGED <<now, ticks, streamers, cache, abortController, aborted,
                   requests, ops, emitted, cfg, appVars, rlVars, hmVars, smVars, ebVars>>

callCreateFilterIndex(input) ==
    /\ call.op = "none"
    /\ call' = [op |-> "createFilterIndex", input |-> input, after |-> input,
                result |-> createFilterIndex(input)]
    /\ UNCHANGED <<filters, sortBy, sortDirection, fsets>>
    /\ UNCHANGED <<now, ticks, streamers, cache, abortController, aborted,
                   requests, ops, emitted, cfg, appVars, rlVars, hmVars, smVars, ebVars>>

\* a caller asks quickFilter about its array, with the index of the array
callQuickFilter(input) ==
    /\ call.op = "none"
    /\ call' = [op |-> "quickFilter", input |-> input, after |-> input,
                result |-> quickFilter(input, createFilterIndex(input))]
    /\ UNCHANGED <<filters, sortBy, sortDirection, fsets>>
    /\ UNCHANGED <<now, ticks, streamers, cache, abortController, aborted,
                   requests, ops, emitted, cfg, appVars, rlVars, hmVars, smVars, ebVars>>

\* what the setters may be handed: the values of the enumerations and, for
\* each, a value outside it
validViewerRanges == {"all"} \cup Range(ViewerRanges)
SettableValues ==
    [status |-> StatusValues \cup {"online"}, viewers |-> ViewerValues,
     duration |-> DurationValues]
SettableSortKeys == SortKeys \cup {"uptime"}
SettableSortDirections == SortDirections \cup {"up"}

\* the settings of the FilterManager
Settings(f, sb, sd) == [filters |-> f, sortBy |-> sb, sortDirection |-> sd]

\* validateFilters(): the settings it leaves and the errors it returns, one
\* per field it has reset
validateFilters(f, sb, sd) ==
    LET invalid == [status |-> f.status \notin StatusValues,
                    viewers |-> f.viewers \notin validViewerRanges,
                    sortBy |-> sb \notin SortKeys,
                    sortDirection |-> sd \notin SortDirections]
    IN [settings |->
            Settings([f EXCEPT !.status = IF invalid.status THEN "all" ELSE @,
                               !.viewers = IF invalid.viewers THEN "all" ELSE @],
                     IF invalid.sortBy THEN "status" ELSE sb,
                     IF invalid.sortDirection THEN "desc" ELSE sd),
        errors |-> SelectSeq(<<"status", "viewers", "sortBy", "sortDirection">>,
                             LAMBDA field : invalid[field])]

\* a caller validates the settings; it may do so again at once
callValidateFilters ==
    /\ call.op \in {"none", "validateFilters"}
    /\ LET r == validateFilters(filters, sortBy, sortDirection) IN
       /\ filters' = r.settings.filters
       /\ sortBy' = r.settings.sortBy
       /\ sortDirection' = r.settings.sortDirection
       /\ call' = [op |-> IF call.op = "none" THEN "validateFilters"
                          ELSE "validateFilters again",
                   input |-> Settings(filters, sortBy, sortDirection),
                   after |-> r.settings, result |-> r.errors]
    /\ UNCHANGED fsets
    /\ UNCHANGED <<now, ticks, streamers, cache, abortController, aborted,
                   requests, ops, emitted, cfg, appVars, rlVars, hmVars, smVars, ebVars>>

(***************************************************************************)
(* StorageManager (src/storageManager.js)                                  *)
(***************************************************************************)
\* the keys of the cache entries and what is cached under them
CacheKeys == {"list", "stats"}
CacheValues == {0, 7}
\* the time-to-live values of the entries: none, and one step of the clock
CacheTtls == {0, TickMs}

\* `cache_${key}`
CacheKey(key) == CASE key = "list" -> "cache_list" [] key = "stats" -> "cache_stats"

\* set(key, value): the storage it leaves; when localStorage.setItem throws
\* nothing is written and false is returned
set(ls, key, value, written) == IF written THEN (key :> value) @@ ls ELSE ls

\* get(key, defaultValue)
get(ls, key, defaultValue) == IF key \in DOMAIN ls THEN ls[key] ELSE defaultValue

\* remove(key)
remove(ls, key) == [k \in DOMAIN ls \ {key} |-> ls[k]]

NoStoreCall ==
    [op |-> "none", arg |-> "", result |-> Null, threw |-> FALSE, at |-> 0,
     written |-> TRUE,
     before |-> [favorites |-> <<>>, localStorage |-> <<>>, stored |-> <<>>],
     prev |-> [op |-> "none", arg |-> "", result |-> Null, favorites |-> <<>>]]

\* the call just made, whether localStorage took its writes, and the call
\* before it with the favorites it found
StoreCall(op, arg, result, threw, written) ==
    [op |-> op, arg |-> arg, result |-> result, threw |-> threw, at |-> now,
     written |-> written,
     before |-> [favorites |-> favorites, localStorage |-> localStorage,
                 stored |-> stored],
     prev |-> [op |-> scall.op, arg |-> scall.arg, result |-> scall.result,
               favorites |-> scall.before.favorites]]

\* the frame of the calls of the StorageManager
StoreFrame ==
    UNCHANGED <<now, ticks, streamers, cache, abortController, aborted, requests,
                ops, emitted, cfg, appVars, rlVars, hmVars, fmVars, ebVars>>

\* a setCache call for the key has been written
WasWritten(key) == key \in DOMAIN puts /\ puts[key].written

\* setCache(key, value, ttl)
setCache(key, value, ttl, written) ==
    /\ sops < cfg.maxStoreOps
    /\ sops' = sops + 1
    /\ LET cacheData == [value |-> value, timestamp |-> now, ttl |-> ttl] IN
       /\ localStorage' = set(localStorage, CacheKey(key), cacheData, written)
       /\ puts' = (key :> [last |-> cacheData,
                           written |-> written \/ WasWritten(key),
                           kept |-> IF written \/ ~WasWritten(key) THEN cacheData
                                    ELSE puts[key].kept]) @@ puts
    /\ scall' = StoreCall("setCache", key, written, FALSE, written)
    /\ UNCHANGED favorites
    /\ StoreFrame

\* localStorage.getItem(fullKey) !== null
Stored(key) == key \in DOMAIN localStorage

\* (mutant) an entry expires when its time-to-live is reached
ExpiredAtTtl(cacheData) == now - cacheData.timestamp >= cacheData.ttl

\* whether getCache finds the entry expired
Expired(cacheData) == now - cacheData.timestamp > cacheData.ttl

\* getCache(key)
getCache(key) ==
    /\ sops < cfg.maxStoreOps
    /\ sops' = sops + 1
    /\ LET cacheData == get(localStorage, CacheKey(key), Null) IN
       IF ~Stored(CacheKey(key))
       THEN /\ scall' = StoreCall("getCache", key, Null, FALSE, TRUE)
            /\ UNCHANGED localStorage
       ELSE IF Expired(cacheData)
       THEN /\ localStorage' = remove(localStorage, CacheKey(key))
            /\ scall' = StoreCall("getCache", key, Null, FALSE, TRUE)
       ELSE /\ scall' = StoreCall("getCache", key, cacheData.value, FALSE, TRUE)
            /\ UNCHANGED localStorage
    /\ UNCHANGED <<favorites, puts>>
    /\ StoreFrame

\* cleanupExpiredCache(): returns the number of entries it has removed
cleanupExpiredCache ==
    /\ sops < cfg.maxStoreOps
    /\ sops' = sops + 1
    /\ LET expired == {key \in CacheKeys :
                          /\ Stored(CacheKey(key))
                          /\ Expired(localStorage[CacheKey(key)])} IN
       /\ localStorage' =
              [k \in DOMAIN localStorage \ {CacheKey(key) : key \in expired} |->
                  localStorage[k]]
       /\ scall' = StoreCall("cleanupExpiredCache", "", Cardinality(expired), FALSE,
                          TRUE)
    /\ UNCHANGED <<favorites, puts>>
    /\ StoreFrame

\* the operations whose accesses to localStorage are not inside a
\* try/catch
Unguarded == {"clearCache", "cleanupExpiredCache"}
StoreOps == {"set", "get", "remove", "clear", "setCache", "getCache"} \cup Unguarded

\* the default a caller hands to get
SuppliedDefault == 7

\* what an operation returns when every access to localStorage throws
ResultUnavailable(op) ==
    CASE op \in {"set", "remove", "clear", "setCache"} -> FALSE
      [] op = "get" -> SuppliedDefault
      [] OTHER -> Null

\* an operation of the store called while localStorage is unavailable:
\* the exception is caught where there is a try/catch, and leaves the
\* operation where there is none
callUnavailable(op) ==
    /\ sops < cfg.maxStoreOps
    /\ sops' = sops + 1
    /\ scall' = StoreCall(op, "", ResultUnavailable(op), op \in Unguarded, FALSE)
    /\ UNCHANGED <<favorites, localStorage, puts>>
    /\ StoreFrame

\* the identifiers the favorites API is handed; the last one is neither
\* lower-cased nor trimmed
Identifiers == {"amy", "bob", " Bob"}

\* streamerName.toLowerCase().trim()
Normalize(streamerName) == IF streamerName = " Bob" THEN "bob" ELSE streamerName

\* new Set(array): the elements in the order of their first occurrence
NewSet(array) ==
    LET first == Positions([j \in DOMAIN array |->
                               \A i \in 1..(j - 1) : array[i] # array[j]])
    IN [k \in DOMAIN first |-> array[first[k]]]

\* Set.prototype.has, add and delete
SetHas(members, x) == x \in Range(members)
SetAdd(members, x) == IF SetHas(members, x) THEN members ELSE Append(members, x)
SetDelete(members, x) == SelectSeq(members, LAMBDA m : m # x)

\* saveFavorites(): the storage it leaves
saveFavorites(favs, ls, written) == set(ls, "favorites", favs, written)

\* loadFavorites()
loadFavorites ==
    /\ sops < cfg.maxStoreOps
    /\ sops' = sops + 1
    /\ favorites' = NewSet(get(localStorage, "favorites", <<>>))
    /\ scall' = StoreCall("loadFavorites", "", Null, FALSE, TRUE)
    /\ UNCHANGED <<localStorage, puts>>
    /\ StoreFrame

\* addFavorite(streamerName)
addFavorite(streamerName, written) ==
    /\ sops < cfg.maxStoreOps
    /\ sops' = sops + 1
    /\ favorites' = SetAdd(favorites, Normalize(streamerName))
    /\ localStorage' = saveFavorites(favorites', localStorage, written)
    /\ scall' = StoreCall("addFavorite", streamerName, TRUE, FALSE, written)
    /\ UNCHANGED puts
    /\ StoreFrame

\* removeFavorite(streamerName)
removeFavorite(streamerName, written) ==
    /\ sops < cfg.maxStoreOps
    /\ sops' = sops + 1
    /\ LET removed == SetHas(favorites, Normalize(streamerName)) IN
       /\ favorites' = SetDelete(favorites, Normalize(streamerName))
       /\ localStorage' = IF removed
                          THEN saveFavorites(favorites', localStorage, written)
                          ELSE localStorage
       /\ scall' = StoreCall("removeFavorite", streamerName, removed, FALSE, written)
    /\ UNCHANGED puts
    /\ StoreFrame

\* (mutant) toggleFavorite changes the Set and does not save it
toggleFavoriteUnsaved(streamerName, written) ==
    /\ sops < cfg.maxStoreOps
    /\ sops' = sops + 1
    /\ LET normalizedName == Normalize(streamerName)
           has == SetHas(favorites, normalizedName) IN
       /\ favorites' = IF has THEN SetDelete(favorites, normalizedName)
                       ELSE SetAdd(favorites, normalizedName)
       /\ scall' = StoreCall("toggleFavorite", streamerName, ~has, FALSE, written)
    /\ UNCHANGED <<localStorage, puts>>
    /\ StoreFrame

\* toggleFavorite(streamerName): removeFavorite or addFavorite of the
\* normalized name, which they normalize once more
toggleFavorite(streamerName, written) ==
    /\ sops < cfg.maxStoreOps
    /\ sops' = sops + 1
    /\ LET normalizedName == Normalize(streamerName)
           has == SetHas(favorites, normalizedName) IN
       /\ favorites' = IF has THEN SetDelete(favorites, Normalize(normalizedName))
                       ELSE SetAdd(favorites, Normalize(normalizedName))
       /\ localStorage' = saveFavorites(favorites', localStorage, written)
       /\ scall' = StoreCall("toggleFavorite", streamerName, ~has, FALSE, written)
    /\ UNCHANGED puts
    /\ StoreFrame

\* isFavorite(streamerName)
isFavorite(streamerName) ==
    /\ sops < cfg.maxStoreOps
    /\ sops' = sops + 1
    /\ scall' = StoreCall("isFavorite", streamerName,
                          SetHas(favorites, Normalize(streamerName)), FALSE, TRUE)
    /\ UNCHANGED <<favorites, localStorage, puts>>
    /\ StoreFrame

\* JSON null, where an object is expected
JSNull == [type |-> "null"]

\* the keys importData copies besides the favorites and the settings
dataKeys == {"streamHistory", "notificationHistory", "filters", "theme", "viewMode",
             "refreshInterval"}

\* exportData() of a store with these favorites, this localStorage and this
\* stored history, at this time
exportData(favs, ls, history, time) ==
    [version |-> "4.0", timestamp |-> time, favorites |-> favs,
     settings |-> get(ls, "settings", <<>>),
     streamHistory |-> history,
     notificationHistory |-> get(ls, "notificationHistory", <<>>),
     filters |-> get(ls, "filters", <<>>),
     theme |-> get(ls, "theme", "dark"),
     viewMode |-> get(ls, "viewMode", "grid"),
     refreshInterval |-> get(ls, "refreshInterval", 60)]

\* !data || !data.version
InvalidData(data) == data = JSNull \/ "version" \notin DOMAIN data

\* what importData(data) leaves of the favorites, the localStorage and the
\* stored history once the envelope has been accepted
Imported(favs, ls, history, data, written) ==
    LET hasFavorites == "favorites" \in DOMAIN data
        favs2 == IF hasFavorites THEN NewSet(data.favorites) ELSE favs
        ls1 == IF hasFavorites THEN saveFavorites(favs2, ls, written) ELSE ls
        ls2 == IF "settings" \in DOMAIN data
               THEN set(ls1, "settings", data.settings, written) ELSE ls1
        given == {key \in dataKeys \ {"streamHistory"} : key \in DOMAIN data}
    IN [favorites |-> favs2,
        localStorage |-> IF written THEN [key \in given |-> data[key]] @@ ls2 ELSE ls2,
        stored |-> IF "streamHistory" \in DOMAIN data /\ written
                   THEN data.streamHistory ELSE history,
        threw |-> FALSE]

\* (mutant) the envelope is looked at after the favorites have been imported
importDataLate(favs, ls, history, data, written) ==
    IF data = JSNull
    THEN [favorites |-> favs, localStorage |-> ls, stored |-> history, threw |-> TRUE]
    ELSE IF "version" \notin DOMAIN data
    THEN [Imported(favs, ls, history, [favorites |-> data.favorites], written)
              EXCEPT !.threw = TRUE]
    ELSE Imported(favs, ls, history, data, written)

\* importData(data): it throws 'Invalid data format' before it has changed
\* anything, or imports
importData(favs, ls, history, data, written) ==
    IF InvalidData(data)
    THEN [favorites |-> favs, localStorage |-> ls, stored |-> history, threw |-> TRUE]
    ELSE Imported(favs, ls, history, data, written)

\* restoreBackup(file), from the text of the file on: the promise is
\* rejected when the backup has no data or importData throws
restoreBackup(favs, ls, history, backup, written) ==
    IF backup = JSNull \/ "data" \notin DOMAIN backup
    THEN [favorites |-> favs, localStorage |-> ls, stored |-> history, threw |-> TRUE]
    ELSE importData(favs, ls, history, backup.data, written)

\* the stores whose exports are imported: an empty one, and one with a
\* favorite, a status filter and a sort key saved
ExportStates ==
    {[favorites |-> <<>>, localStorage |-> <<>>],
     [favorites |-> <<"amy">>,
      localStorage |-> ("favorites" :> <<"amy">>)
                       @@ ("filters" :> [DefaultFilters EXCEPT !.status = "live"])
                       @@ ("sortBy" :> "viewers")]}

\* what importData is handed: null, an object without a version, a file
\* written by hand, and the exports
ImportDatas ==
    {JSNull, [favorites |-> <<"amy">>], [version |-> "4.0", favorites |-> <<" Bob", "amy">>]}
    \cup {exportData(A.favorites, A.localStorage, <<>>, 0) : A \in ExportStates}

\* an export whose stream history holds, for each of the names, a session
\* that has ended, with its scalars
ImportedSession ==
    [id |-> 1, startTime |-> StartMinute, endTime |-> StartMinute, startViewers |-> 50,
     peakViewers |-> 50, endViewers |-> 50,
     viewerSamples |-> <<[timestamp |-> StartMinute, viewers |-> 50]>>,
     duration |-> 0, averageViewers |-> 50]

ImportedHistory ==
    [EmptyHistory EXCEPT !.sessions = <<ImportedSession>>, !.lastSeen = StartMinute,
                         !.peakViewers = 50, !.streamCount = 1]

HistoryExport(names) ==
    [version |-> "4.0", streamHistory |-> [n \in names |-> ImportedHistory]]

\* the backups read from files: null, one without data, and one around each
\* of the above
Backups ==
    {JSNull, [version |-> "4.0", timestamp |-> 0]}
    \cup {[version |-> "4.0", timestamp |-> 0, data |-> data] : data \in ImportDatas}

\* a call of importData or restoreBackup that leaves r
ImportCall(op, arg, r, written) ==
    /\ sops < cfg.maxStoreOps
    /\ sops' = sops + 1
    /\ favorites' = r.favorites
    /\ localStorage' = r.localStorage
    /\ stored' = r.stored
    /\ scall' = StoreCall(op, arg, ~r.threw, r.threw, written)
    /\ UNCHANGED puts
    /\ UNCHANGED <<hnow, historyData, isInitialized, nextSession, updates, observed>>
    /\ UNCHANGED <<now, ticks, streamers, cache, abortController, aborted, requests,
                   ops, emitted, cfg, appVars, rlVars, fmVars, ebVars>>

callImportData(data, written) ==
    ImportCall("importData", data,
               importData(favorites, localStorage, stored, data, written), written)

callRestoreBackup(backup, written) ==
    ImportCall("restoreBackup", backup,
               restoreBackup(favorites, localStorage, stored, backup, written),
               written)

\* KickStreamersApp.handleFilterChange: setFilter, then the filters are
\* saved unless a subscriber's exception has left setFilter; it is no call
\* of the StorageManager's own operations
handleFilterChange(type, value, written) ==
    /\ fsets < cfg.maxSets
    /\ fsets' = fsets + 1
    /\ filters' = [filters EXCEPT ![type] = value]
    /\ call' = NoCall
    /\ Emit("FilterManager", "setter")
    /\ localStorage' = IF elog'.threw THEN localStorage
                       ELSE set(localStorage, "filters", filters', written)
    /\ scall' = NoStoreCall
    /\ UNCHANGED <<sortBy, sortDirection, favorites, sops, puts>>
    /\ UNCHANGED <<now, ticks, streamers, cache, abortController, aborted, requests,
                   ops, emitted, cfg, appVars, rlVars, hmVars>>

\* KickStreamersApp.handleSortChange: setSortBy, then the key is saved
handleSortChange(key, written) ==
    /\ fsets < cfg.maxSets
    /\ fsets' = fsets + 1
    /\ sortBy' = key
    /\ call' = NoCall
    /\ Emit("FilterManager", "setter")
    /\ localStorage' = IF elog'.threw THEN localStorage
                       ELSE set(localStorage, "sortBy", key, written)
    /\ scall' = NoStoreCall
    /\ UNCHANGED <<filters, sortDirection, favorites, sops, puts>>
    /\ UNCHANGED <<now, ticks, streamers, cache, abortController, aborted, requests,
                   ops, emitted, cfg, appVars, rlVars, hmVars>>

\* what the request of fetchStreamersList comes to: a 2xx response whose
\* body is an array of names or something else, or a failure (non-2xx
\* status, transport failure, body that is no JSON)
ListResponses(n) ==
    {[ok |-> TRUE, isArray |-> TRUE, body |-> Prefix(k)] : k \in 0..n}
    \cup {[ok |-> TRUE, isArray |-> FALSE, body |-> <<>>],
          [ok |-> FALSE, isArray |-> FALSE, body |-> <<>>]}

\* fetchStreamersList(): the list it returns for the response
fetchStreamersList(ls, response) ==
    IF response.ok
    THEN IF response.isArray THEN response.body ELSE <<>>
    ELSE get(ls, "cachedStreamersList", <<>>)

\* a call of fetchStreamersList settles; it writes nothing
callFetchStreamersList(response) ==
    /\ sops < cfg.maxStoreOps
    /\ sops' = sops + 1
    /\ scall' = StoreCall("fetchStreamersList", response,
                          fetchStreamersList(localStorage, response), FALSE, TRUE)
    /\ UNCHANGED <<favorites, localStorage, puts>>
    /\ StoreFrame

InitStorage ==
    /\ favorites = <<>>
    /\ localStorage = <<>>
    /\ sops = 0
    /\ puts = <<>>
    /\ scall = NoStoreCall

\* a scenario without queries to the FilterManager, and one with nothing else
NoQueries == [maxSets |-> 0, pool |-> {}, maxLen |-> 0]
OnlyQueries ==
    [maxOps |-> 0, lens |-> {}, maxTicks |-> 0, maxUpdates |-> 0, names |-> {},
     writes |-> {}]

InitFilter ==
    /\ filters = DefaultFilters
    /\ sortBy = "status"
    /\ sortDirection = "desc"
    /\ fsets = 0
    /\ call = NoCall

InitLimiter ==
    /\ waiting = {}
    /\ issued = 0
    /\ admitLog = <<>>

InitHistory ==
    /\ hnow = StartMinute
    /\ historyData = <<>>
    /\ isInitialized = FALSE
    /\ stored = <<>>
    /\ nextSession = 0
    /\ updates = 0
    /\ observed = <<>>

\* no query to the analytics has been made
(***************************************************************************)
(* NotificationManager (src/notificationManager.js): the queue. The        *)
(* settings are the constructor's: enabled, no quiet hours, desktop        *)
(***************************************************************************)
\* sendUINotification and emit('notificationSent') have run for it
Delivered(log, notification) == [log EXCEPT !.delivered = Append(@, notification)]

\* processNotificationQueue from the test of its while loop on, up to its
\* next await or its end. With the permission granted the loop calls
\* sendDesktopNotification, whose new Notification(...) returns or throws,
\* and awaits its promise; without it the notification goes to the UI at
\* once and the loop awaits the delay
WhileStep(queue, log, granted, throws) ==
    IF queue = <<>>
    THEN [queue |-> queue, loop |-> <<>>, finished |-> TRUE, log |-> log]
    ELSE IF granted
    THEN [queue |-> Tail(queue),
          loop |-> <<[pc |-> "desktop", cur |-> Head(queue), threw |-> throws]>>,
          finished |-> FALSE, log |-> log]
    ELSE [queue |-> Tail(queue),
          loop |-> <<[pc |-> "delay", cur |-> Head(queue), threw |-> FALSE]>>,
          finished |-> FALSE, log |-> Delivered(log, Head(queue))]

NotificationFrame ==
    UNCHANGED <<now, ticks, streamers, cache, abortController, aborted, requests,
                ops, emitted, cfg, muts, acall, rlVars, hmVars, fmVars, smVars,
                ebVars>>

\* (mutant) every call starts a loop
sendNotificationUnguarded(granted, throws) ==
    /\ nlog.enqueued < cfg.maxNotes
    /\ LET w == WhileStep(Append(notificationQueue, nlog.enqueued + 1),
                          [nlog EXCEPT !.enqueued = @ + 1], granted, throws)
       IN /\ notificationQueue' = w.queue
          /\ loops' = loops \o w.loop
          /\ isProcessing' = ~w.finished
          /\ nlog' = w.log
    /\ NotificationFrame

\* sendNotification(notification): the notifications are numbered as they
\* are enqueued
sendNotification(granted, throws) ==
    /\ nlog.enqueued < cfg.maxNotes
    /\ LET pushed == Append(notificationQueue, nlog.enqueued + 1)
           log == [nlog EXCEPT !.enqueued = @ + 1]
       IN IF ~isProcessing
          THEN LET w == WhileStep(pushed, log, granted, throws) IN
               /\ notificationQueue' = w.queue
               /\ loops' = loops \o w.loop
               /\ isProcessing' = ~w.finished
               /\ nlog' = w.log
          ELSE /\ notificationQueue' = pushed
               /\ nlog' = log
               /\ UNCHANGED <<loops, isProcessing>>
    /\ NotificationFrame

\* what loop i leaves when it goes back to the test of its while loop
Iterate(i, log, granted, throws) ==
    LET w == WhileStep(notificationQueue, log, granted, throws) IN
    /\ notificationQueue' = w.queue
    /\ loops' = SubSeq(loops, 1, i - 1) \o w.loop \o SubSeq(loops, i + 1, Len(loops))
    /\ isProcessing' = IF w.finished THEN FALSE ELSE isProcessing
    /\ nlog' = w.log

\* the promise of sendDesktopNotification has settled: rejected, the catch
\* logs the error and the loop goes on without the delay; fulfilled, the
\* notification goes to the UI and the loop awaits the delay
DesktopSettled(i, granted, throws) ==
    /\ i \in DOMAIN loops
    /\ loops[i].pc = "desktop"
    /\ IF loops[i].threw
       THEN Iterate(i, [nlog EXCEPT !.dropped = @ \cup {loops[i].cur}], granted, throws)
       ELSE /\ loops' = [loops EXCEPT ![i].pc = "delay"]
            /\ nlog' = Delivered(nlog, loops[i].cur)
            /\ UNCHANGED <<notificationQueue, isProcessing>>
    /\ NotificationFrame

\* the delay between two notifications is over
PauseDone(i, granted, throws) ==
    /\ i \in DOMAIN loops
    /\ loops[i].pc = "delay"
    /\ Iterate(i, nlog, granted, throws)
    /\ NotificationFrame

\* cleanup(): the queue is replaced by an empty one
cleanup ==
    /\ notificationQueue' = <<>>
    /\ nlog' = [nlog EXCEPT !.discarded = @ \cup Range(notificationQueue)]
    /\ UNCHANGED <<loops, isProcessing>>
    /\ NotificationFrame

NoAnalytics ==
    [op |-> "none", name |-> 0, days |-> 0, at |-> 0, history |-> EmptyHistory,
     result |-> [streamCount |-> 0]]

NoNotifications == [enqueued |-> 0, delivered |-> <<>>, dropped |-> {}, discarded |-> {}]

InitNotifications ==
    /\ notificationQueue = <<>>
    /\ isProcessing = FALSE
    /\ loops = <<>>
    /\ nlog = NoNotifications

InitManager ==
    /\ InitLimiter
    /\ InitHistory
    /\ InitFilter
    /\ InitStorage
    /\ InitBus
    /\ InitNotifications
    /\ muts = <<>>
    /\ acall = NoAnalytics
    /\ now = 0
    /\ streamers = <<>>
    /\ cache = <<>>
    /\ abortController = 0
    /\ aborted = {}
    /\ requests = <<>>
    /\ ops = <<>>
    /\ emitted = {}
    /\ ticks = 0

(***************************************************************************)
(* Spec: concurrent load/refresh calls over a short watchlist; the API     *)
(* answers 2xx, an error status or not at all                              *)
(***************************************************************************)
Init ==
    /\ InitManager
    /\ cfg = [maxOps |-> MaxOps, lens |-> 0..MaxWatch, maxTicks |-> MaxTicks,
              maxUpdates |-> 0, names |-> {}, writes |-> {}] @@ NoQueries

Next ==
    \/ loadStreamers
    \/ refreshStreamers
    \/ \E o \in DOMAIN ops, n \in cfg.lens : ListDone(o, n)
    \/ \E o \in DOMAIN ops, k \in Slots, d \in Payloads : RespondOk(o, k, d)
    \/ \E o \in DOMAIN ops, k \in Slots, f \in Failures : RespondFail(o, k, f)
    \/ \E o \in DOMAIN ops, k \in Slots : AbortReject(o, k)
    \/ Tick

Spec == Init /\ [][Next]_vars

(***************************************************************************)
(* SpecRetry: one load of a short watchlist, which destroy() may abort;   *)
(* the API may also answer 429                                             *)
(***************************************************************************)
InitRetry ==
    /\ InitManager
    /\ cfg = [maxOps |-> 1, lens |-> 1..MaxRetryWatch, maxTicks |-> MaxRetryTicks,
              maxUpdates |-> 0, names |-> {}, writes |-> {}] @@ NoQueries

NextRetry ==
    \/ loadStreamers
    \/ destroy
    \/ \E o \in DOMAIN ops, n \in cfg.lens : ListDone(o, n)
    \/ \E o \in DOMAIN ops, k \in Slots : AbortReject(o, k)
    \/ \E o \in DOMAIN ops, k \in Slots, d \in Payloads : RespondOk(o, k, d)
    \/ \E o \in DOMAIN ops, k \in Slots, f \in Failures : RespondFail(o, k, f)
    \/ \E o \in DOMAIN ops, k \in Slots : Respond429(o, k)
    \/ \E o \in DOMAIN ops, k \in Slots : BackoffDone(o, k)
    \/ Tick

SpecRetry == InitRetry /\ [][NextRetry]_vars

(***************************************************************************)
(* SpecBatch: one load of a list of up to MaxIds ids, which destroy() may  *)
(* abort; the API answers 2xx or the request is aborted                    *)
(***************************************************************************)
BatchPayloads == {[livestream |-> FALSE, viewer_count |-> 0]}

InitBatch ==
    /\ InitManager
    /\ cfg = [maxOps |-> 1, lens |-> 0..MaxIds, maxTicks |-> MaxBatchTicks,
              maxUpdates |-> 0, names |-> {}, writes |-> {}] @@ NoQueries

NextBatch ==
    \/ loadStreamers
    \/ destroy
    \/ \E o \in DOMAIN ops, n \in cfg.lens : ListDone(o, n)
    \/ \E o \in DOMAIN ops : DelayDone(o)
    \/ \E o \in DOMAIN ops, k \in Slots : RLWake(o, k)
    \/ \E o \in DOMAIN ops, k \in Slots, d \in BatchPayloads : RespondOk(o, k, d)
    \/ \E o \in DOMAIN ops, k \in Slots : AbortReject(o, k)
    \/ Tick

SpecBatch == InitBatch /\ [][NextBatch]_vars

(***************************************************************************)
(* SpecLimiter: concurrent direct callers of RateLimiter.wait              *)
(***************************************************************************)
InitLimiterSpec ==
    /\ InitManager
    /\ cfg = [maxOps |-> 0, lens |-> {}, maxTicks |-> MaxLimiterTicks,
              maxUpdates |-> 0, names |-> {}, writes |-> {}] @@ NoQueries

NextLimiter ==
    \/ wait
    \/ \E c \in waiting : waitAgain(c)
    \/ Tick

SpecLimiter == InitLimiterSpec /\ [][NextLimiter]_vars

(***************************************************************************)
(* SpecHistory: recordStreamerUpdate and cleanupOldData over time          *)
(***************************************************************************)
InitHistorySpec ==
    /\ InitManager
    /\ cfg = [maxOps |-> 0, lens |-> {}, maxTicks |-> MaxHistoryTicks,
              maxUpdates |-> MaxUpdates, names |-> 1..MaxEntities, writes |-> {TRUE}] @@ NoQueries

NextHistory ==
    \/ \E w \in cfg.writes : init(w)
    \/ \E st \in Snapshots(cfg.names), w \in cfg.writes : recordStreamerUpdate(st, w)
    \/ \E w \in cfg.writes : cleanupOldData(w)
    \/ \E d \in HTickSteps : HTick(d)

SpecHistory == InitHistorySpec /\ [][NextHistory]_vars

(***************************************************************************)
(* SpecStore: recordStreamerUpdate and cleanupOldData over a store whose   *)
(* writes may fail (localStorage.setItem throws, StorageManager.set        *)
(* returns false)                                                          *)
(***************************************************************************)
InitStore ==
    /\ InitManager
    /\ cfg = [maxOps |-> 0, lens |-> {}, maxTicks |-> MaxStoreTicks,
              maxUpdates |-> MaxStoreUpdates, names |-> 1..MaxStoreEntities,
              writes |-> {TRUE, FALSE}] @@ NoQueries

NextStore ==
    \/ \E w \in cfg.writes : init(w)
    \/ \E st \in Snapshots(cfg.names), w \in cfg.writes : recordStreamerUpdate(st, w)
    \/ \E w \in cfg.writes : cleanupOldData(w)
    \/ \E d \in HTickSteps : HTick(d)

SpecStore == InitStore /\ [][NextStore]_vars

(***************************************************************************)
(* SpecFilter: applyFilters over every filter and sort setting that a few  *)
(* setter calls reach                                                      *)
(***************************************************************************)
InitFilterSpec ==
    /\ InitManager
    /\ cfg = OnlyQueries @@
             [maxSets |-> MaxFilterSets,
              pool |-> Streamers(1..MaxFilterNames, StreamerShapes),
              maxLen |-> MaxFilterLen]

NextFilter ==
    \/ \E type \in DOMAIN FilterValues : \E value \in FilterValues[type] :
          setFilter(type, value)
    \/ clearFilters
    \/ \E key \in SortKeys : setSortBy(key)
    \/ \E direction \in SortDirections : setSortDirection(direction)
    \/ toggleSortDirection
    \/ \E input \in Arrays(cfg.pool, cfg.maxLen) : callApplyFilters(input)

SpecFilter == InitFilterSpec /\ [][NextFilter]_vars

(***************************************************************************)
(* SpecSort: applyFilters sorting by status, in both directions            *)
(***************************************************************************)
InitSort ==
    /\ InitManager
    /\ cfg = OnlyQueries @@
             [maxSets |-> MaxSortSets,
              pool |-> Streamers(1..MaxSortNames, StreamerShapes),
              maxLen |-> MaxSortLen]

NextSort ==
    \/ \E direction \in SortDirections : setSortDirection(direction)
    \/ toggleSortDirection
    \/ \E input \in Arrays(cfg.pool, cfg.maxLen) : callApplyFilters(input)

SpecSort == InitSort /\ [][NextSort]_vars

(***************************************************************************)
(* SpecBuckets: the viewer filter, getViewerRangeStats and                 *)
(* createFilterIndex over viewer counts on and next to the bucket edges    *)
(***************************************************************************)
InitBuckets ==
    /\ InitManager
    /\ cfg = OnlyQueries @@
             [maxSets |-> MaxBucketSets,
              pool |-> Streamers(1..MaxBucketNames, EdgeShapes),
              maxLen |-> MaxBucketLen]

NextBuckets ==
    \/ \E value \in ViewerValues : setFilter("viewers", value)
    \/ \E input \in Arrays(cfg.pool, cfg.maxLen) : callApplyFilters(input)
    \/ \E input \in Arrays(cfg.pool, cfg.maxLen) : callGetViewerRangeStats(input)
    \/ \E input \in Arrays(cfg.pool, cfg.maxLen) : callCreateFilterIndex(input)

SpecBuckets == InitBuckets /\ [][NextBuckets]_vars

(***************************************************************************)
(* SpecValidate: validateFilters after setters that were handed values     *)
(* inside and outside the enumerations                                     *)
(***************************************************************************)
InitValidate ==
    /\ InitManager
    /\ cfg = OnlyQueries @@ [maxSets |-> MaxValidateSets, pool |-> {}, maxLen |-> 0]

NextValidate ==
    \/ \E type \in DOMAIN SettableValues : \E value \in SettableValues[type] :
          setFilter(type, value)
    \/ \E key \in SettableSortKeys : setSortBy(key)
    \/ \E direction \in SettableSortDirections : setSortDirection(direction)
    \/ callValidateFilters

SpecValidate == InitValidate /\ [][NextValidate]_vars

(***************************************************************************)
(* SpecCache: setCache, getCache and cleanupExpiredCache as the clock      *)
(* advances, over a store whose writes may fail                            *)
(***************************************************************************)
InitCache ==
    /\ InitManager
    /\ cfg = [maxStoreOps |-> MaxCacheOps, maxTicks |-> MaxCacheTicks] @@
             OnlyQueries @@ NoQueries

NextCache ==
    \/ \E key \in CacheKeys, value \in CacheValues, ttl \in CacheTtls,
          written \in BOOLEAN : setCache(key, value, ttl, written)
    \/ \E key \in CacheKeys : getCache(key)
    \/ cleanupExpiredCache
    \/ Tick

SpecCache == InitCache /\ [][NextCache]_vars

(***************************************************************************)
(* SpecEvents: callbacks that return or throw subscribe to the buses; the  *)
(* buses emit, the FilterManager's also from setFilter                     *)
(***************************************************************************)
InitEvents ==
    /\ InitManager
    /\ cfg = [maxListeners |-> MaxListeners, maxSets |-> MaxEventSets] @@
             OnlyQueries @@ NoQueries

NextEvents ==
    \/ \E bus \in Buses, callback \in Callbacks : on(bus, callback)
    \/ \E bus \in Buses : callEmit(bus)
    \/ \E value \in StatusValues : setFilter("status", value)

SpecEvents == InitEvents /\ [][NextEvents]_vars

(***************************************************************************)
(* SpecFavorites: the favorites API and importData over a store whose      *)
(* writes may fail                                                         *)
(***************************************************************************)
InitFavorites ==
    /\ InitManager
    /\ cfg = [maxStoreOps |-> MaxFavoriteOps, writes |-> BOOLEAN] @@
             OnlyQueries @@ NoQueries

NextFavorites ==
    \/ loadFavorites
    \/ \E x \in Identifiers, w \in cfg.writes : addFavorite(x, w)
    \/ \E x \in Identifiers, w \in cfg.writes : removeFavorite(x, w)
    \/ \E x \in Identifiers, w \in cfg.writes : toggleFavorite(x, w)
    \/ \E x \in Identifiers : isFavorite(x)
    \/ \E data \in ImportDatas, w \in cfg.writes : callImportData(data, w)

SpecFavorites == InitFavorites /\ [][NextFavorites]_vars

(***************************************************************************)
(* SpecImport: importData and restoreBackup into a store that holds        *)
(* favorites, filters and a sort key, or nothing; every write succeeds     *)
(***************************************************************************)
InitImport ==
    /\ InitManager
    /\ cfg = [maxStoreOps |-> MaxImportOps, maxSets |-> MaxImportSets,
              writes |-> {TRUE}] @@ OnlyQueries @@ NoQueries

NextImport ==
    \/ \E x \in Identifiers, w \in cfg.writes : addFavorite(x, w)
    \/ \E value \in StatusValues, w \in cfg.writes :
          handleFilterChange("status", value, w)
    \/ \E key \in SortKeys, w \in cfg.writes : handleSortChange(key, w)
    \/ \E data \in ImportDatas, w \in cfg.writes : callImportData(data, w)
    \/ \E backup \in Backups, w \in cfg.writes : callRestoreBackup(backup, w)

SpecImport == InitImport /\ [][NextImport]_vars

(***************************************************************************)
(* SpecWatchlist: fetchStreamersList against a source that answers or      *)
(* fails, next to the operations that write to the store                   *)
(***************************************************************************)
InitWatchlist ==
    /\ InitManager
    /\ cfg = [maxStoreOps |-> MaxFetches, writes |-> {TRUE}] @@
             OnlyQueries @@ NoQueries

NextWatchlist ==
    \/ \E response \in ListResponses(MaxListLen) : callFetchStreamersList(response)
    \/ \E x \in Identifiers, w \in cfg.writes : addFavorite(x, w)
    \/ \E data \in ImportDatas, w \in cfg.writes : callImportData(data, w)

SpecWatchlist == InitWatchlist /\ [][NextWatchlist]_vars

(***************************************************************************)
(* SpecRefresh: a load of one name and refreshes after the cache has been  *)
(* cleared, so that a refresh asks the channel API, which answers 2xx or   *)
(* fails                                                                   *)
(***************************************************************************)
InitRefresh ==
    /\ InitManager
    /\ cfg = [maxOps |-> MaxRefreshOps, lens |-> {1}] @@
             OnlyQueries @@ NoQueries

NextRefresh ==
    \/ loadStreamers
    \/ refreshStreamers
    \/ clearCache
    \/ \E o \in DOMAIN ops, n \in cfg.lens : ListDone(o, n)
    \/ \E o \in DOMAIN ops, k \in Slots, d \in Payloads : RespondOk(o, k, d)
    \/ \E o \in DOMAIN ops, k \in Slots, f \in Failures : RespondFail(o, k, f)
    \/ \E o \in DOMAIN ops, k \in Slots : AbortReject(o, k)

SpecRefresh == InitRefresh /\ [][NextRefresh]_vars

(***************************************************************************)
(* SpecPurge: recordStreamerUpdate and cleanupOldData while more than the  *)
(* retention horizon passes, over a store whose writes may fail            *)
(***************************************************************************)
InitPurge ==
    /\ InitManager
    /\ cfg = [maxTicks |-> MaxPurgeTicks, maxUpdates |-> MaxPurgeUpdates,
              names |-> {1}, writes |-> BOOLEAN] @@ OnlyQueries @@ NoQueries

NextPurge ==
    \/ \E w \in cfg.writes : init(w)
    \/ \E st \in Snapshots(cfg.names), w \in cfg.writes : recordStreamerUpdate(st, w)
    \/ \E w \in cfg.writes : cleanupOldData(w)
    \/ \E d \in HTickSteps : HTick(d)

SpecPurge == InitPurge /\ [][NextPurge]_vars

(***************************************************************************)
(* SpecAnalytics: recordStreamerUpdate over time, and a query to the       *)
(* analytics of the history it has left                                    *)
(***************************************************************************)
InitAnalytics ==
    /\ InitManager
    /\ cfg = [maxTicks |-> MaxAnalyticsTicks, maxUpdates |-> MaxAnalyticsUpdates,
              names |-> {1}, writes |-> {TRUE}] @@ OnlyQueries @@ NoQueries

NextAnalytics ==
    \/ \E w \in cfg.writes : init(w)
    \/ \E st \in Snapshots(cfg.names), w \in cfg.writes : recordStreamerUpdate(st, w)
    \/ \E d \in HTickSteps : HTick(d)
    \/ \E n \in cfg.names, days \in AnalyticsDays : callGetStreamerAnalytics(n, days)

SpecAnalytics == InitAnalytics /\ [][NextAnalytics]_vars

(***************************************************************************)
(* SpecIndex: quickFilter with the index of its array, over the filters    *)
(* the index serves                                                        *)
(***************************************************************************)
IndexedFilters == {"status", "category", "viewers"}

InitIndex ==
    /\ InitManager
    /\ cfg = OnlyQueries @@
             [maxSets |-> MaxIndexSets,
              pool |-> Streamers(1..MaxIndexNames, StreamerShapes),
              maxLen |-> MaxIndexLen]

NextIndex ==
    \/ \E type \in IndexedFilters : \E value \in FilterValues[type] :
          setFilter(type, value)
    \/ \E input \in Arrays(cfg.pool, cfg.maxLen) : callQuickFilter(input)

SpecIndex == InitIndex /\ [][NextIndex]_vars

(***************************************************************************)
(* SpecOutage: the operations of the store while localStorage is           *)
(* unavailable, and the favorites API over writes that may fail            *)
(***************************************************************************)
InitOutage ==
    /\ InitManager
    /\ cfg = [maxStoreOps |-> MaxOutageOps, writes |-> BOOLEAN] @@
             OnlyQueries @@ NoQueries

NextOutage ==
    \/ \E op \in StoreOps : callUnavailable(op)
    \/ \E x \in Identifiers, w \in cfg.writes : addFavorite(x, w)
    \/ \E x \in Identifiers, w \in cfg.writes : removeFavorite(x, w)
    \/ \E x \in Identifiers, w \in cfg.writes : toggleFavorite(x, w)

SpecOutage == InitOutage /\ [][NextOutage]_vars

(***************************************************************************)
(* SpecMerge: importData of an export with a stream history, before and    *)
(* after the HistoryManager has loaded the store, and recordStreamerUpdate *)
(***************************************************************************)
InitMerge ==
    /\ InitManager
    /\ cfg = [maxUpdates |-> MaxMergeUpdates, maxStoreOps |-> MaxMergeImports,
              names |-> {1, 2}, writes |-> {TRUE}] @@ OnlyQueries @@ NoQueries

NextMerge ==
    \/ \E w \in cfg.writes : init(w)
    \/ \E st \in Snapshots(cfg.names), w \in cfg.writes : recordStreamerUpdate(st, w)
    \/ \E names \in SUBSET cfg.names, w \in cfg.writes :
          callImportData(HistoryExport(names), w)

SpecMerge == InitMerge /\ [][NextMerge]_vars

(***************************************************************************)
(* SpecNotify: sendNotification calls, the loop of                         *)
(* processNotificationQueue and cleanup. SpecNotifyFair: the promise of    *)
(* sendDesktopNotification settles and the timer of the delay fires        *)
(***************************************************************************)
InitNotify ==
    /\ InitManager
    /\ cfg = [maxNotes |-> MaxNotes] @@ OnlyQueries @@ NoQueries

NextNotify ==
    \/ \E granted \in BOOLEAN, throws \in BOOLEAN : sendNotification(granted, throws)
    \/ \E i \in DOMAIN loops, granted \in BOOLEAN, throws \in BOOLEAN :
          DesktopSettled(i, granted, throws)
    \/ \E i \in DOMAIN loops, granted \in BOOLEAN, throws \in BOOLEAN :
          PauseDone(i, granted, throws)
    \/ cleanup

SpecNotify == InitNotify /\ [][NextNotify]_vars

SpecNotifyFair ==
    /\ SpecNotify
    /\ WF_vars(\E i \in DOMAIN loops, granted \in BOOLEAN, throws \in BOOLEAN :
                  DesktopSettled(i, granted, throws))
    /\ WF_vars(\E i \in DOMAIN loops, granted \in BOOLEAN, throws \in BOOLEAN :
                  PauseDone(i, granted, throws))

(***************************************************************************)
(* SpecMutate: addStreamer and removeStreamer calls that overlap each      *)
(* other and one load or refresh of a watchlist of at most one name; the   *)
(* proxy and the channel API answer 2xx or fail                            *)
(***************************************************************************)
\* what the user types: nothing, a name, the name in capitals, another name
TypedNames == {0, 1, 0 - 1, 2}

InitMutate ==
    /\ InitManager
    /\ cfg = [maxMuts |-> MaxMuts, maxOps |-> 1, lens |-> 0..1] @@
             OnlyQueries @@ NoQueries

NextMutate ==
    \/ \E x \in TypedNames : addStreamer(x)
    \/ \E x \in TypedNames, pin \in BOOLEAN : removeStreamer(x, pin)
    \/ \E m \in DOMAIN muts : ProxyOk(m)
    \/ \E m \in DOMAIN muts : ProxyFail(m)
    \/ \E m \in DOMAIN muts, d \in Payloads : InfoOk(m, d)
    \/ \E m \in DOMAIN muts, f \in Failures : InfoFail(m, f)
    \/ loadStreamers
    \/ refreshStreamers
    \/ \E o \in DOMAIN ops, n \in cfg.lens : ListDone(o, n)
    \/ \E o \in DOMAIN ops, k \in Slots, d \in Payloads : RespondOk(o, k, d)
    \/ \E o \in DOMAIN ops, k \in Slots, f \in Failures : RespondFail(o, k, f)

SpecMutate == InitMutate /\ [][NextMutate]_vars

(***************************************************************************)
(* Properties                                                              *)
(***************************************************************************)
AllItems == {<<o, k>> : o \in DOMAIN ops, k \in Slots}
HasItem(o, k) == k \in DOMAIN ops[o].items

\* C1: a load/refresh that a later load/refresh superseded while it was in
\* flight never writes its result into the streamer collection nor emits
\* streamersLoaded, and once all calls have settled the collection holds
\* the result of the call started last.
C1_SupersededNeverCommits ==
    /\ \A o \in DOMAIN ops : ops[o].superseded => ops[o].pc # "resolved"
    /\ \A o \in DOMAIN ops :
          ops[o].superseded => Event("streamersLoaded", o, 0) \notin emitted
    /\ (/\ ops # <<>>
        /\ \A o \in DOMAIN ops : ops[o].pc = "resolved"
        /\ ops[Len(ops)].kind = "load")
       => streamers = ops[Len(ops)].results

\* C2: RateLimiter.wait admits at most maxRequests callers in any rolling
\* window of windowMs: any maxRequests + 1 consecutive admissions span at
\* least windowMs (so the 11th of 11 calls made at t = 0 is not admitted
\* before t = 1000), and at no time do more than maxRequests admissions lie
\* less than windowMs back.
C2_AtMostNPerWindow ==
    /\ \A i \in DOMAIN admitLog :
          i > maxRequests => admitLog[i] - admitLog[i - maxRequests] >= windowMs
    /\ Cardinality({i \in DOMAIN admitLog : now - admitLog[i] < windowMs})
          <= maxRequests

\* C2 (witness): a caller that found the window full has been admitted
\* after waiting.
C2_Witness ==
    /\ Len(admitLog) > maxRequests
    /\ admitLog[maxRequests + 1] >= windowMs

\* C3: a fetchStreamerInfo call whose request got a non-2xx status other
\* than 429 or failed in transport is fulfilled (not rejected) with the
\* fallback snapshot of the requested name (error, not live, 0 viewers),
\* and the step in which it fails writes no cache entry.
C3_FailureYieldsFallback ==
    /\ [](\A p \in AllItems :
            (HasItem(p[1], p[2]) /\ ops[p[1]].items[p[2]].resp = "failure")
            => /\ ops[p[1]].items[p[2]].st = "ok"
               /\ ops[p[1]].items[p[2]].val =
                     [name |-> ops[p[1]].names[ops[p[1]].i + p[2]],
                      live |-> FALSE, viewers |-> 0, error |-> TRUE])
    /\ [][\A p \in AllItems :
            (/\ HasItem(p[1], p[2])
             /\ ops[p[1]].items[p[2]].st = "net"
             /\ ops'[p[1]].items[p[2]].resp = "failure")
            => cache' = cache]_vars

\* C3 (witness): a request that was retried after a 429 has failed, and
\* the name has no cache entry.
C3_Witness ==
    \E p \in AllItems :
        /\ HasItem(p[1], p[2])
        /\ ops[p[1]].items[p[2]].resp = "failure"
        /\ ops[p[1]].items[p[2]].attempts > 1
        /\ ops[p[1]].items[p[2]].name \notin DOMAIN cache

ResultNames(op) == [j \in DOMAIN op.results |-> op.results[j].name]

C5_BatchesDoNotOverlap ==
    \A o \in DOMAIN ops :
        /\ ~ops[o].overlapped
        /\ ops[o].pending <= batchSize
        /\ ops[o].pc = "delay" => ops[o].pending = 0
        /\ ops[o].i > 0 => ops[o].startedAt >= ops[o].prevSettledAt + batchDelayMs

\* C5 (witness): a later batch is in flight, after a batch in which a
\* fetch was rejected.
C5_Witness ==
    \E o \in DOMAIN ops :
        /\ ops[o].i >= batchSize
        /\ ops[o].pending > 0
        /\ ops[o].rejected # {}

\* the j-th run of at most batchSize consecutive ids
Chunk(usernames, j) ==
    [x \in 1..((IF j * batchSize < Len(usernames) THEN j * batchSize
                ELSE Len(usernames)) - (j - 1) * batchSize)
        |-> usernames[(j - 1) * batchSize + x]]

\* C6: fetchMultipleStreamers on N ids issues ceil(N / 5) batches, the
\* j-th being ids 5(j-1)+1 .. min(5j, N) in input order (12 ids: batches
\* of 5, 5 and 2), so that every id is fetched in exactly one batch.
C6_BatchesPartitionInput ==
    \A o \in DOMAIN ops :
        LET op == ops[o]
            N == Len(op.names)
        IN /\ \A j \in DOMAIN op.batches : op.batches[j] = Chunk(op.names, j)
           /\ Len(op.batches) * batchSize < N + batchSize
           /\ op.pc = "resolved" => Len(op.batches) * batchSize >= N
           /\ (op.pc = "resolved" /\ N = 12)
              => [j \in DOMAIN op.batches |-> Len(op.batches[j])] = <<5, 5, 2>>

\* C6 (witness): a call on 12 ids has returned after three batches.
C6_Witness ==
    \E o \in DOMAIN ops :
        /\ ops[o].pc = "resolved"
        /\ Len(ops[o].names) = 12
        /\ Len(ops[o].batches) = 3

\* C7: a load/refresh whose signal fired while fetches were outstanding
\* ends aborted: it does not return a result list (nor write or emit it),
\* no aborted fetch has written the cache, and no 'error' event is emitted.
C7_AbortedCallEndsAborted ==
    /\ \A o \in DOMAIN ops : ops[o].hit => ops[o].pc # "resolved"
    /\ \A p \in AllItems :
          (HasItem(p[1], p[2]) /\ ops[p[1]].items[p[2]].st = "rej")
          => ops[p[1]].items[p[2]].resp # "ok"
    /\ \A e \in emitted : e.event # "error"

\* C8: a fetchStreamerInfo call retries a 429 once: it issues at most two
\* requests.
C8_RetriesOnce ==
    \A p \in AllItems :
        HasItem(p[1], p[2]) => ops[p[1]].items[p[2]].attempts <= 2

OpenSessions(history) ==
    {j \in DOMAIN history.sessions : history.sessions[j].endTime = Null}

\* C9: every entity's history has at most one session with endTime = null,
\* and that session is the last of the list.
C9_OneOpenSessionLast ==
    \A n \in DOMAIN historyData :
        /\ Cardinality(OpenSessions(historyData[n])) <= 1
        /\ \A j \in OpenSessions(historyData[n]) : j = Len(historyData[n].sessions)

\* C9 (witness): an entity that went live, not live and live again has an
\* open session behind a closed one.
C9_Witness ==
    \E n \in DOMAIN historyData :
        LET ss == historyData[n].sessions IN
        /\ Len(ss) = 2
        /\ ss[1].endTime # Null
        /\ ss[2].endTime = Null

SessionById(history, id) ==
    history.sessions[CHOOSE j \in DOMAIN history.sessions : history.sessions[j].id = id]

OpenIds(history) ==
    {history.sessions[j].id : j \in OpenSessions(history)}

ClosedIds(history) ==
    {history.sessions[j].id : j \in DOMAIN history.sessions \ OpenSessions(history)}

LastStatusLive(history) ==
    /\ history.statusChanges # <<>>
    /\ IsLive(history.statusChanges[Len(history.statusChanges)].live)

\* C10: a session is closed once, by the first status change to not-live
\* after it was opened (a session is open only while the entity's last
\* status change is the one to live that opened it): the closing sets
\* endTime to the time of that status change and duration to
\* endTime - startTime and adds the duration to totalStreamTime; no later
\* step changes endTime or duration of a closed session, and totalStreamTime
\* changes by nothing but the duration of a session that the step closes.
C10_SessionClosedOnce ==
    /\ [](\A n \in DOMAIN historyData :
            OpenSessions(historyData[n]) # {}
            => /\ LastStatusLive(historyData[n])
               /\ historyData[n].sessions[Len(historyData[n].sessions)].startTime =
                     historyData[n].statusChanges[Len(historyData[n].statusChanges)].timestamp)
    /\ [][\A n \in DOMAIN historyData :
         LET h == historyData[n]
             h2 == historyData'[n]
             open == OpenIds(h)
             closed == ClosedIds(h)
             open2 == OpenIds(h2)
             closed2 == ClosedIds(h2)
             closing == open \cap closed2
         IN /\ \A id \in closed \cap (open2 \cup closed2) :
                  /\ SessionById(h2, id).endTime = SessionById(h, id).endTime
                  /\ SessionById(h2, id).duration = SessionById(h, id).duration
            /\ \A id \in closing :
                  /\ SessionById(h2, id).endTime = hnow
                  /\ SessionById(h2, id).duration = hnow - SessionById(h, id).startTime
                  /\ h2.totalStreamTime = h.totalStreamTime + SessionById(h2, id).duration
            /\ closing = {} => h2.totalStreamTime = h.totalStreamTime
            /\ closing # {}
               => /\ ~LastStatusLive(h2)
                  /\ Len(h2.statusChanges) = Len(h.statusChanges) + 1
                  /\ h2.statusChanges[Len(h2.statusChanges)].timestamp = hnow
         ]_vars

\* C10 (witness): a closed session has seen a further status change to
\* not-live after the one that closed it.
C10_Witness ==
    \E n \in DOMAIN historyData :
        LET h == historyData[n]
            sc == h.statusChanges
        IN /\ h.sessions # <<>>
           /\ h.sessions[Len(h.sessions)].endTime # Null
           /\ h.totalStreamTime > 0
           /\ Len(sc) >= 3
           /\ ~IsLive(sc[Len(sc)].live)
           /\ ~IsLive(sc[Len(sc) - 1].live)

HistoryOf(data, n) == IF n \in DOMAIN data THEN data[n] ELSE EmptyHistory

\* the step is a recordStreamerUpdate(st) call on an initialised manager
Records(st) ==
    /\ isInitialized
    /\ updates' = updates + 1
    /\ historyData' = (st.name :> UpdatedHistory(st)) @@ historyData

\* C11 (as claimed): consecutive status-change records of an entity
\* alternate between live and offline (a record is appended only when
\* the snapshot's live flag differs from that of the last record).
C11_StatusChangesAlternate ==
    \A n \in DOMAIN historyData :
        LET sc == historyData[n].statusChanges IN
        \A j \in 1..(Len(sc) - 1) : IsLive(sc[j].live) # IsLive(sc[j + 1].live)

\* the last session opened for the entity, when the ghost observations are
\* about it
ObservedSession(n) ==
    LET ss == historyData[n].sessions IN
    IF n \in DOMAIN observed /\ ss # <<>> /\ ss[Len(ss)].id = observed[n].id
    THEN {ss[Len(ss)]} ELSE {}

\* C12 (as claimed): a closed session's endViewers is the viewer count of
\* the last live snapshot recorded before the snapshot that closed it.
C12_EndViewersLastLive ==
    \A n \in DOMAIN historyData :
        \A session \in ObservedSession(n) :
            session.endTime # Null => session.endViewers = observed[n].last

\* C13: a session's startViewers is the viewer count of the snapshot that
\* opened it, its peakViewers is the maximum viewer count of the live
\* snapshots recorded while it was open, whether sampled or not, and the
\* entity's all-time peakViewers is at least every session's peakViewers.
C13_SessionPeaks ==
    \A n \in DOMAIN historyData :
        /\ \A session \in ObservedSession(n) :
              /\ session.startViewers = observed[n].start
              /\ session.peakViewers = observed[n].max
        /\ \A j \in DOMAIN historyData[n].sessions :
              /\ historyData[n].peakViewers >= historyData[n].sessions[j].peakViewers
              /\ historyData[n].sessions[j].peakViewers >=
                    historyData[n].sessions[j].startViewers

\* C13 (witness): a session opened at 50 viewers has peak 80 from a live
\* snapshot that was not sampled.
C13_Witness ==
    \E n \in DOMAIN historyData :
        \E session \in ObservedSession(n) :
            /\ session.startViewers = 50
            /\ session.peakViewers = 80
            /\ Len(session.viewerSamples) = 1
            /\ historyData[n].peakViewers = 80

SessionIds(history) == {history.sessions[j].id : j \in DOMAIN history.sessions}

\* C14: streamCount grows by one with every session opened and by nothing
\* else: no step that closes or purges sessions changes it, so it is the
\* number of sessions opened for the entity so far, closed or still open.
C14_StreamCountCountsOpenings ==
    /\ [](\A n \in DOMAIN historyData :
            historyData[n].streamCount >= Len(historyData[n].sessions))
    /\ [][\A n \in DOMAIN historyData' :
            historyData'[n].streamCount =
                HistoryOf(historyData, n).streamCount
                + Cardinality(SessionIds(historyData'[n])
                              \ SessionIds(HistoryOf(historyData, n)))
         ]_vars

\* C14 (witness): an entity with a closed and an open session has
\* streamCount 2.
C14_Witness ==
    \E n \in DOMAIN historyData :
        LET h == historyData[n] IN
        /\ Len(h.sessions) = 2
        /\ h.sessions[1].endTime # Null
        /\ h.sessions[2].endTime = Null
        /\ h.streamCount = 2

AllSamples(history) ==
    Len(history.viewerHistory)
    + Sum([j \in DOMAIN history.sessions |-> Len(history.sessions[j].viewerSamples)])

\* C15: consecutive entries of an entity's viewerHistory are at least
\* viewerHistoryEvery (5 minutes) apart, consecutive entries of one
\* session's viewerSamples are at least sessionSampleEvery (2 minutes)
\* apart, and a step adds samples only when it records a live snapshot
\* (the entity's last status change is then to live).
C15_SamplingCadences ==
    /\ [](\A n \in DOMAIN historyData :
            LET h == historyData[n] IN
            /\ \A j \in 1..(Len(h.viewerHistory) - 1) :
                  h.viewerHistory[j + 1].timestamp - h.viewerHistory[j].timestamp
                      >= viewerHistoryEvery
            /\ \A k \in DOMAIN h.sessions :
                  \A j \in 1..(Len(h.sessions[k].viewerSamples) - 1) :
                      h.sessions[k].viewerSamples[j + 1].timestamp
                      - h.sessions[k].viewerSamples[j].timestamp >= sessionSampleEvery)
    /\ [][\A n \in DOMAIN historyData' :
            AllSamples(historyData'[n]) > AllSamples(HistoryOf(historyData, n))
            => /\ updates' = updates + 1
               /\ LastStatusLive(historyData'[n])
         ]_vars

\* C15 (witness): a session holds a second sample 2 minutes after its
\* first while viewerHistory, less than 5 minutes old, still has one entry.
C15_Witness ==
    \E n \in DOMAIN historyData :
        LET h == historyData[n] IN
        /\ Len(h.viewerHistory) = 1
        /\ \E k \in DOMAIN h.sessions :
              /\ Len(h.sessions[k].viewerSamples) = 2
              /\ h.sessions[k].viewerSamples[2].timestamp
                 - h.sessions[k].viewerSamples[1].timestamp < viewerHistoryEvery

\* a snapshot with its missing fields set to their defaults
Defaulted(st) ==
    [st EXCEPT !.live = IF @ = "undefined" THEN "false" ELSE @,
               !.viewers = IF @ = Undefined THEN 0 ELSE @]

\* C17 (as claimed): recording a snapshot with missing fields leaves the
\* history as recording the snapshot with the fields set to 0 / false
\* leaves it.
C17_MissingFieldsAsDefaults ==
    [][\A st \in Snapshots(cfg.names) :
          Records(st)
          => historyData' = (st.name :> UpdatedHistory(Defaulted(st))) @@ historyData
      ]_vars

Count(arr, e) == Cardinality({j \in DOMAIN arr : arr[j] = e})

IsPermutation(a, b) ==
    /\ Len(a) = Len(b)
    /\ \A e \in Range(a) \cup Range(b) : Count(a, e) = Count(b, e)

\* C18: applyFilters leaves the caller's array as it was and returns only
\* elements of it, each at most as often as it occurs there; with every
\* filter at its default the result is a permutation of the input.
C18_ApplyFiltersKeepsInput ==
    call.op = "applyFilters"
    => /\ call.after = call.input
       /\ \A e \in Range(call.result) :
             /\ e \in Range(call.input)
             /\ Count(call.result, e) <= Count(call.input, e)
       /\ filters = DefaultFilters => IsPermutation(call.result, call.input)

\* C18 (witness): with every filter at its default applyFilters has
\* returned the caller's elements in another order.
C18_Witness ==
    /\ call.op = "applyFilters"
    /\ filters = DefaultFilters
    /\ call.result # call.input
    /\ call.after = call.input

\* the bucket of a viewer count: the first whose upper edge is not below it
BucketEdges == <<100, 500, 1000, 5000>>
Bucket(v) ==
    LET under == {k \in DOMAIN BucketEdges : v <= BucketEdges[k]}
    IN IF under = {} THEN ViewerRanges[5]
       ELSE ViewerRanges[CHOOSE k \in under : \A i \in under : k <= i]

ViewersOf(list) == [j \in DOMAIN list |-> OrZero(list[j].viewers)]

\* C19: every viewer count belongs to one bucket, an edge to the lower one
\* (Bucket): each of the five viewer filters selects the elements of that
\* bucket and no others, getViewerRangeStats counts every element in its
\* bucket, and createFilterIndex files every position under its bucket.
C19_BucketsPartition ==
    /\ Bucket(100) = "0-100" /\ Bucket(101) = "100-500"
    /\ (call.op = "applyFilters" /\ filters.viewers \in Range(ViewerRanges))
       => IsPermutation(call.result,
                        SelectSeq(call.input,
                                  LAMBDA s : Bucket(OrZero(s.viewers)) = filters.viewers))
    /\ call.op = "getViewerRangeStats"
       => \A r \in Range(ViewerRanges) :
             call.result[r] =
                 Cardinality({j \in DOMAIN call.input :
                                 Bucket(ViewersOf(call.input)[j]) = r})
    /\ call.op = "createFilterIndex"
       => \A r \in Range(ViewerRanges) :
             Range(call.result.byViewerRange[r]) =
                 {j \in DOMAIN call.input : Bucket(ViewersOf(call.input)[j]) = r}

\* C19 (witness): the filter 0-100 has been asked about a count of 100
\* and has returned it.
C19_Witness ==
    /\ call.op = "applyFilters"
    /\ filters.viewers = "0-100"
    /\ {call.input[j].viewers : j \in DOMAIN call.input} = {100}
    /\ call.result = call.input

Reverse(list) == [j \in DOMAIN list |-> list[Len(list) + 1 - j]]

\* among elements with the same live flag: descending viewer count, then
\* ascending name
TieOrdered(list) ==
    \A i, j \in DOMAIN list :
        (i < j /\ list[i].live = list[j].live)
        => \/ OrZero(list[i].viewers) > OrZero(list[j].viewers)
           \/ /\ OrZero(list[i].viewers) = OrZero(list[j].viewers)
              /\ list[i].name <= list[j].name

\* C20 (as claimed): sorted by status, two elements with the same live
\* flag are in descending order of viewer count and, with equal viewer
\* counts, in ascending order of name (read in the direction of the sort).
C20_StatusTieBreaks ==
    (call.op = "applyFilters" /\ sortBy = "status")
    => TieOrdered(call.result) \/ TieOrdered(Reverse(call.result))


LiveFirst(list) ==
    \A i, j \in DOMAIN list : i < j => ~(~list[i].live /\ list[j].live)

\* C21 (as claimed): a FilterManager on which no setter has been called
\* (sort key 'status', the initial direction) returns every live element
\* before every element that is not live.
C21_FreshLiveFirst ==
    (call.op = "applyFilters" /\ fsets = 0 /\ sortBy = "status")
    => LiveFirst(call.result)

\* the elements of the caller's array that are not live
NotLive(list) == {e \in Range(list) : ~e.live}

\* C22: with a duration filter other than 'all', an element that is not
\* live is never returned under a time range or any other value than
\* 'offline', and with the other filters at their defaults it is returned
\* under 'offline'.
C22_OfflineOnlyInOfflineBucket ==
    (call.op = "applyFilters" /\ filters.duration # "all")
    => \A e \in NotLive(call.input) :
          /\ e \in Range(call.result) => filters.duration = "offline"
          /\ (filters = [DefaultFilters EXCEPT !.duration = "offline"])
             => e \in Range(call.result)

\* C22 (witness): the time range <1h has been asked about a live and an
\* offline element and has returned the live one only.
C22_Witness ==
    /\ call.op = "applyFilters"
    /\ filters.duration = "<1h"
    /\ NotLive(call.input) # {}
    /\ Len(call.result) = 1
    /\ call.result[1].live

\* the enumerated fields of the settings, their enumerations and defaults
EnumFields == {"status", "viewers", "duration", "sortBy", "sortDirection"}
FieldOf(settings, field) ==
    CASE field = "sortBy" -> settings.sortBy
      [] field = "sortDirection" -> settings.sortDirection
      [] OTHER -> settings.filters[field]
Enumeration(field) ==
    CASE field = "status" -> StatusValues
      [] field = "viewers" -> validViewerRanges
      [] field = "duration" -> DurationBuckets
      [] field = "sortBy" -> SortKeys
      [] field = "sortDirection" -> SortDirections
DefaultOf(field) == FieldOf(Settings(DefaultFilters, "status", "desc"), field)

\* C23 (as claimed): when validateFilters has returned, every enumerated
\* field holds a value of its enumeration: a field that was invalid holds
\* its default and is one of the corrections reported, a field that was
\* valid is unchanged, and a call repeated at once reports nothing.
C23_ValidateEnforcesEnumerations ==
    call.op \in {"validateFilters", "validateFilters again"}
    => /\ \A field \in EnumFields :
             /\ FieldOf(call.after, field) \in Enumeration(field)
             /\ FieldOf(call.after, field) =
                    IF FieldOf(call.input, field) \in Enumeration(field)
                    THEN FieldOf(call.input, field)
                    ELSE DefaultOf(field)
       /\ Len(call.result) =
              Cardinality({field \in EnumFields :
                              FieldOf(call.input, field) \notin Enumeration(field)})
       /\ call.op = "validateFilters again" => call.result = <<>>

\* the entry was within its time-to-live when the last call was made
Readable(entry) == scall.at - entry.timestamp <= entry.ttl

\* C24 (as claimed): getCache(key) after setCache(key, v, ttl) returns v
\* as long as now - storedAt <= ttl and null afterwards; a read that finds
\* the entry expired removes it from the storage and an earlier read
\* removes nothing.
C24_CacheReadsLastPut ==
    (scall.op = "getCache" /\ scall.arg \in DOMAIN puts)
    => LET entry == puts[scall.arg].last IN
       /\ scall.result = IF Readable(entry) THEN entry.value ELSE Null
       /\ ~Readable(entry) => CacheKey(scall.arg) \notin DOMAIN localStorage
       /\ Readable(entry) => localStorage = scall.before.localStorage

\* C24 (amended): the same of the last setCache(key, v, ttl) that returned
\* true.
C24_CacheReadsLastWrittenPut ==
    (scall.op = "getCache" /\ WasWritten(scall.arg))
    => LET entry == puts[scall.arg].kept IN
       /\ scall.result = IF Readable(entry) THEN entry.value ELSE Null
       /\ ~Readable(entry) => CacheKey(scall.arg) \notin DOMAIN localStorage
       /\ Readable(entry) => localStorage = scall.before.localStorage

\* C24 (witness): the first read of an entry after its time-to-live has
\* passed has removed it and returned null.
C24_Witness ==
    /\ scall.op = "getCache"
    /\ WasWritten(scall.arg)
    /\ ~Readable(puts[scall.arg].kept)
    /\ CacheKey(scall.arg) \in DOMAIN scall.before.localStorage
    /\ CacheKey(scall.arg) \notin DOMAIN localStorage
    /\ scall.result = Null

\* C25 (as claimed): when a bus has emitted, also from an operation such as
\* setFilter, every callback subscribed to the event has been called and
\* no exception has left emit, whatever the callbacks did.
C25_EmitIsolatesSubscribers ==
    elog.bus # ""
    => /\ elog.called = DOMAIN eventListeners[elog.bus]
       /\ ~elog.threw

\* the favorites list in the storage
PersistedFavorites == get(localStorage, "favorites", <<>>)

\* toggleFavorite has been called twice in a row for the same identifier
ToggledTwice ==
    /\ scall.op = "toggleFavorite"
    /\ scall.prev.op = "toggleFavorite"
    /\ Normalize(scall.prev.arg) = Normalize(scall.arg)

\* the second of two toggles has undone the first
TogglesCancel ==
    ToggledTwice
    => /\ Range(favorites) = Range(scall.prev.favorites)
       /\ scall.result # scall.prev.result

C27_FavoritesNormalized ==
    /\ \A m \in Range(favorites) : Normalize(m) = m
    /\ \A m \in Range(favorites) :
          /\ SetHas(favorites, Normalize(m))
          /\ ~SetHas(SetDelete(favorites, Normalize(m)), m)

\* what a store holds of the favorite set and the filter configuration:
\* the predicate selectors saved by handleFilterChange and the sort key
\* saved by handleSortChange (the sort direction and the watchlist are kept
\* in no store)
Persisted(favs, ls) ==
    [favorites |-> Range(favs), filters |-> get(ls, "filters", <<>>),
     sortBy |-> get(ls, "sortBy", "status")]

\* C28 (as claimed): when the export of a store has been imported, the
\* importing store holds the favorite set and the filter configuration
\* (selectors and sort key) of the exporting store.
C28_ExportImportRoundTrip ==
    \A A \in ExportStates :
        (scall.op = "importData"
            /\ scall.arg = exportData(A.favorites, A.localStorage, <<>>, 0))
        => Persisted(favorites, localStorage) = Persisted(A.favorites, A.localStorage)

\* nothing of the store has changed in the last call
StoreUnchanged ==
    /\ favorites = scall.before.favorites
    /\ localStorage = scall.before.localStorage
    /\ stored = scall.before.stored

\* C29: importData given null or data without a version, and restoreBackup
\* given a backup without data (or with such data), throw to the caller
\* and leave the favorites and every persisted key as they were.
C29_InvalidImportRejected ==
    /\ (scall.op = "importData" /\ InvalidData(scall.arg))
       => scall.threw /\ StoreUnchanged
    /\ (scall.op = "restoreBackup"
           /\ (scall.arg = JSNull \/ "data" \notin DOMAIN scall.arg
                  \/ InvalidData(scall.arg.data)))
       => scall.threw /\ StoreUnchanged

\* C29 (witness): importData has thrown on data that carries favorites but
\* no version, and the favorites of the store are still the ones it had.
C29_Witness ==
    /\ scall.op = "importData"
    /\ scall.arg = [favorites |-> <<"amy">>]
    /\ scall.threw
    /\ favorites = <<"bob">>
    /\ PersistedFavorites = <<"bob">>

\* C30 (as claimed): a fetchStreamersList whose request fails, right after
\* one that succeeded with the list L, returns L.
C30_FailedFetchReturnsLastList ==
    (scall.op = "fetchStreamersList" /\ ~scall.arg.ok
        /\ scall.prev.op = "fetchStreamersList" /\ scall.prev.arg.ok)
    => scall.result = scall.prev.result
\* the step is a step of the addStreamer/removeStreamer call m
StepOf(m) == m \notin DOMAIN muts \/ muts'[m] # muts[m]

\* C31: addStreamer and removeStreamer change the local collection only
\* after the mutation proxy has confirmed the mutation: a step of a call
\* that leaves it waiting for the proxy or rejected (the proxy call failed,
\* no PIN was supplied, the name was empty or known already) leaves the
\* collection as it was and emits nothing, and a call whose proxy call
\* failed or that got no PIN ends rejected.
C31_LocalOnlyAfterConfirmation ==
    [][\A m \in DOMAIN muts' :
          /\ (StepOf(m) /\ muts'[m].pc \in {"proxy", "thrown"})
             => (streamers' = streamers /\ emitted' = emitted)
          /\ (StepOf(m) /\ muts'[m].error \in {"proxy", "pin"})
             => muts'[m].pc = "thrown"
      ]_vars

\* C31 (witness): the proxy has refused to remove an entity of the
\* collection and to add a new one, and a removal got no PIN.
C31_Witness ==
    /\ \E m \in DOMAIN muts :
          /\ muts[m].kind = "remove"
          /\ muts[m].pc = "thrown"
          /\ muts[m].error \in {"proxy", "pin"}
          /\ HasStreamer(streamers, muts[m].name)
    /\ \E m \in DOMAIN muts :
          /\ muts[m].kind = "add"
          /\ muts[m].pc = "thrown"
          /\ muts[m].error = "proxy"

\* C37 (as claimed): the local collection never holds two entries with the
\* same name.
C37_NoDuplicateNames ==
    \A i, j \in DOMAIN streamers : streamers[i].name = streamers[j].name => i = j

\* C38 (as claimed): when a refresh returns, an entity that was live in
\* the collection and whose fetch failed transiently during the refresh
\* has the snapshot it had, and no streamerUpdated was emitted for it.
C38_TransientFailureKeepsLive ==
    [][\A o \in DOMAIN ops :
          (ops[o].kind = "refresh" /\ ops[o].pc # "resolved"
              /\ ops'[o].pc = "resolved")
          => \A j \in DOMAIN streamers :
                (streamers[j].live /\ streamers[j].name \in ops'[o].failed)
                => /\ streamers'[j] = streamers[j]
                   /\ Event("streamerUpdated", o, streamers[j].name) \notin emitted'
      ]_vars

\* the records of the list whose time (startTime of a session, timestamp
\* of a sample or a status change) lies inside the horizon
InsideHorizon(records, field) ==
    {j \in DOMAIN records : records[j][field] >= CutoffTime}

\* after holds exactly the records of before that lie inside the horizon,
\* in their order
KeptInside(before, after, field) ==
    /\ \A i \in DOMAIN after : after[i][field] >= CutoffTime
    /\ Len(after) = Cardinality(InsideHorizon(before, field))
    /\ \A j \in InsideHorizon(before, field) :
          after[Cardinality({i \in InsideHorizon(before, field) : i <= j})] = before[j]

\* the step is a cleanupOldData() call and has left every entity without a
\* record older than the horizon and with every record inside it
CleansUp ==
    /\ \E w \in cfg.writes : cleanupOldData(w)
    /\ DOMAIN historyData' = DOMAIN historyData
    /\ \A n \in DOMAIN historyData :
          /\ KeptInside(historyData[n].sessions, historyData'[n].sessions, "startTime")
          /\ KeptInside(historyData[n].viewerHistory, historyData'[n].viewerHistory,
                        "timestamp")
          /\ KeptInside(historyData[n].statusChanges, historyData'[n].statusChanges,
                        "timestamp")

WindowSessions ==
    SelectSeq(acall.history.sessions,
              LAMBDA s : s.startTime >= acall.at - acall.days * MinutesPerDay)

\* C33 (as claimed): for an entity whose only session in the analytics
\* window is still open, getStreamerAnalytics reports a stream count of 1
\* for the window: a session counts from its start.
C33_OpenSessionCounts ==
    (/\ acall.op = "getStreamerAnalytics"
     /\ Len(WindowSessions) = 1
     /\ WindowSessions[1].endTime = Null)
    => acall.result.streamCount = 1

\* C34 (as claimed): every analytics quotient is a number, and it is 0
\* when its divisor is zero: the average stream duration with no completed
\* session in the window, the time-weighted average of the viewers with a
\* total duration of zero, the stream frequency for a window of 0 days,
\* and the viewer growth with fewer than 2 samples or a first-half mean
\* of 0.
C34_ZeroDivisorYieldsZero ==
    acall.op = "getStreamerAnalytics"
    => LET r == acall.result
           samples == SelectSeq(acall.history.viewerHistory,
                                LAMBDA v : v.timestamp >=
                                           acall.at - acall.days * MinutesPerDay)
       IN /\ IsNumber(r.averageStreamDuration) /\ IsNumber(r.streamFrequency)
          /\ (\A j \in DOMAIN WindowSessions : WindowSessions[j].endTime = Null)
             => IsZero(r.averageStreamDuration)
          /\ Sum([j \in DOMAIN WindowSessions |-> OrZero(WindowSessions[j].duration)]) = 0
             => r.averageViewers = 0
          /\ acall.days = 0 => IsZero(r.streamFrequency)
          /\ (Len(samples) < 2
              \/ Sum([j \in 1..(Len(samples) \div 2) |-> samples[j].viewers]) = 0)
             => r.viewerGrowth = 0

\* C36 (as claimed): for every FilterState and every collection,
\* quickFilter(streamers, createFilterIndex(streamers)) returns the
\* sequence that applyFilters(streamers) returns.
C36_QuickFilterEqualsApplyFilters ==
    call.op = "quickFilter" => call.result = applyFilters(call.input).result

\* C35 (as claimed): no operation of the store throws when localStorage
\* is unavailable or a write to it fails: a read returns the supplied
\* default, a write reports the failure, and the favorites in memory are
\* what they were before the call.
C35_StoreNeverThrows ==
    (scall.op # "none" /\ ~scall.written)
    => /\ ~scall.threw
       /\ scall.op \in {"set", "remove", "clear", "setCache", "addFavorite"}
          => scall.result = FALSE
       /\ scall.op = "get" => scall.result = SuppliedDefault
       /\ favorites = scall.before.favorites

\* a recordStreamerUpdate of an initialized HistoryManager right after an
\* importData that has written a stream history
RecordsAfterImport ==
    /\ scall.op = "importData" /\ ~scall.threw /\ scall.written
    /\ isInitialized
    /\ \E st \in Snapshots(cfg.names), w \in cfg.writes : recordStreamerUpdate(st, w)

\* C39 (as claimed): the recordStreamerUpdate that follows an importData
\* leaves, in the persisted 'streamHistory', every imported entity with
\* the sessions and the scalars that were imported.
C39_ImportSurvivesRecording ==
    [][RecordsAfterImport
       => \A n \in DOMAIN scall.arg.streamHistory :
             /\ n \in DOMAIN stored'
             /\ \A j \in DOMAIN scall.arg.streamHistory[n].sessions :
                   \E k \in DOMAIN stored'[n].sessions :
                      stored'[n].sessions[k] = scall.arg.streamHistory[n].sessions[j]
             /\ stored'[n].streamCount >= scall.arg.streamHistory[n].streamCount
             /\ stored'[n].peakViewers >= scall.arg.streamHistory[n].peakViewers]_vars

\* at most one loop is active, and the notifications that were delivered
\* were delivered once, in the order they were enqueued
OneLoopInOrder ==
    /\ Len(loops) <= 1
    /\ isProcessing <=> loops # <<>>
    /\ \A i, j \in DOMAIN nlog.delivered : i < j => nlog.delivered[i] < nlog.delivered[j]

\* the queue is empty, no loop is processing it, and every notification
\* enqueued has come to one of these ends
AtRest(ends) ==
    /\ notificationQueue = <<>>
    /\ ~isProcessing
    /\ \A n \in 1..nlog.enqueued : n \in ends

\* C40 (as claimed): at most one processNotificationQueue loop is active,
\* the notifications are delivered in the order they were enqueued and
\* each at most once, and every notification enqueued and not discarded
\* by cleanup is eventually delivered, after which the queue is empty and
\* isProcessing is false.
C40_AllDeliveredInOrder ==
    /\ []OneLoopInOrder
    /\ <>[]AtRest(Range(nlog.delivered) \cup nlog.discarded)

\* C40 (amended): as above, but a notification whose desktop notification
\* throws is dropped: it is taken from the queue and never delivered.
\* Every notification enqueued is eventually delivered, dropped or
\* discarded, after which the queue is empty and isProcessing is false.
C40_AllDeliveredOrDroppedInOrder ==
    /\ []OneLoopInOrder
    /\ <>[]AtRest(Range(nlog.delivered) \cup nlog.dropped \cup nlog.discarded)

\* two notifications were enqueued while the loop was active; one was
\* delivered, one dropped, and the loop has ended
C40_Witness ==
    /\ nlog.enqueued >= 2
    /\ nlog.delivered # <<>>
    /\ nlog.dropped # {}
    /\ notificationQueue = <<>>
    /\ ~isProcessing

====
